---- MODULE Spec2Model ----
(***************************************************************************)
(* Conference (reconciliation) state machine of LoterIA.                   *)
(*                                                                         *)
(* src/index.tsx holds two variants of the application:                    *)
(*   variant "A" (lines 1-895):   history / handleCheckResults /            *)
(*                                handleCheckTeimosinha / handleManualCheck *)
(*   variant "B" (lines 897-1868): savedGames / DetailPage effects          *)
(* The variable app says which variant is running; it is chosen in Init     *)
(* and never changes.  Every handler of a variant is one action; an async   *)
(* handler is one action per synchronous segment (up to the next await).    *)
(* React re-renders and runs the effects of the render before the next      *)
(* event is handled, so an effect is part of the action whose state change  *)
(* triggers it.                                                             *)
(***************************************************************************)
EXTENDS Integers, Sequences, FiniteSets, Bags, TLC

----------------------------------------------------------------------------
(* Bounds of the model *)

\* most combinations of a set whose tiers are summarized on their own
MaxGames == 2
\* most sets ever saved in one run
MaxSets == 2
\* most lookups in flight at once
MaxPasses == 2
\* contests 1..MaxContest can be drawn during a run
MaxContest == 3
\* largest numberOfContests offered by the teimosinha dialog
MaxTeimosinha == 2
\* most times one reconciliation is applied over again to the same set
MaxApplications == 2

----------------------------------------------------------------------------
(* Configuration and pure helpers *)

\* One lottery variant, scaled down from GAME_CONFIG / LOTTERY_CONFIG
\* (lotofacil: 15 of 25, tiers 11..15) so that its numbers can be enumerated.
GAME_CONFIG == [numbersPerGame |-> 3, totalNumbers |-> 5, prizeTiers |-> <<2, 3>>]

\* Array.prototype.includes
includes(arr, x) == \E i \in 1..Len(arr) : arr[i] = x

\* The texts of the numbers: the API answers with "dezenas" as two-digit
\* strings, the manual form holds what the user typed.
DezenaText == <<"01", "02", "03", "04", "05", "06">>

\* Number(s) of a form field or of a dezena: "" and "00" give 0.
Number(s) ==
    IF s \in {"", "00"} THEN 0
    ELSE CHOOSE n \in 1..Len(DezenaText) : DezenaText[n] = s

\* data.dezenas.map(Number)
MapNumber(dezenas) == [i \in 1..Len(dezenas) |-> Number(dezenas[i])]

\* calculateHits comparing position by position (mutant): a number counts
\* only where the draw holds it at the same index
calculateHitsPositional(game, winningNumbers) ==
    Cardinality({i \in 1..Len(game) : i <= Len(winningNumbers) /\ game[i] = winningNumbers[i]})

\* calculateHits (variant A, module level)
calculateHits(game, winningNumbers) ==
    Len(SelectSeq(game, LAMBDA num : includes(winningNumbers, num)))

\* The summary without the test of the prize tiers (mutant): every hit count
\* gets an entry
summaryOfEveryHitCount(games, winningNumbers, n) ==
    [t \in {calculateHits(games[i], winningNumbers) : i \in 1..n} |->
        Cardinality({i \in 1..n : calculateHits(games[i], winningNumbers) = t})]

\* The summary built by performConference's forEach over the first n games:
\* a mapping whose keys are the tiers met so far.
RECURSIVE summaryAfter(_, _, _)
summaryAfter(games, winningNumbers, n) ==
    IF n = 0 THEN <<>>
    ELSE LET summary == summaryAfter(games, winningNumbers, n - 1)
             hits    == calculateHits(games[n], winningNumbers)
         IN  IF includes(GAME_CONFIG.prizeTiers, hits)
             THEN [t \in (DOMAIN summary) \cup {hits} |->
                     IF t = hits
                     THEN (IF hits \in DOMAIN summary THEN summary[hits] ELSE 0) + 1
                     ELSE summary[t]]
             ELSE summary

\* A set without a conference (the optional field is absent)
NoConference == [present |-> FALSE]

\* performConference with the flag ignored (mutant): every record is manual
performConferenceKeepsManual(gameSet, winningNumbers, isManual) ==
    [gameSet EXCEPT !.conference =
        [present |-> TRUE, winningNumbers |-> winningNumbers,
         summary |-> summaryAfter(gameSet.generatedGames, winningNumbers,
                                  Len(gameSet.generatedGames)),
         isManual |-> TRUE]]

\* performConference adding its counts onto the summary the set already
\* carries (mutant)
performConferenceAddsUp(gameSet, winningNumbers, isManual) ==
    LET new == summaryAfter(gameSet.generatedGames, winningNumbers,
                            Len(gameSet.generatedGames))
        old == IF gameSet.conference.present THEN gameSet.conference.summary ELSE <<>>
    IN  [gameSet EXCEPT !.conference =
            [present |-> TRUE, winningNumbers |-> winningNumbers,
             summary |-> [t \in (DOMAIN old) \cup (DOMAIN new) |->
                            (IF t \in DOMAIN old THEN old[t] ELSE 0)
                            + (IF t \in DOMAIN new THEN new[t] ELSE 0)],
             isManual |-> isManual]]

\* performConference (checkedAt, a timestamp, is left out)
\* performConference stamping the set with the time of the conference (mutant)
performConferenceStampsTheSet(gameSet, winningNumbers, isManual) ==
    [gameSet EXCEPT !.dateSaved = 0,
                    !.conference =
        [present |-> TRUE, winningNumbers |-> winningNumbers,
         summary |-> summaryAfter(gameSet.generatedGames, winningNumbers,
                                  Len(gameSet.generatedGames)),
         isManual |-> isManual]]

\* performConference leaving a set without a prize unconferred (mutant)
performConferenceOnlyWithPrize(gameSet, winningNumbers, isManual) ==
    IF summaryAfter(gameSet.generatedGames, winningNumbers,
                    Len(gameSet.generatedGames)) = <<>>
    THEN gameSet
    ELSE [gameSet EXCEPT !.conference =
            [present |-> TRUE, winningNumbers |-> winningNumbers,
             summary |-> summaryAfter(gameSet.generatedGames, winningNumbers,
                                      Len(gameSet.generatedGames)),
             isManual |-> isManual]]

performConference(gameSet, winningNumbers, isManual) ==
    [gameSet EXCEPT !.conference =
        [present |-> TRUE, winningNumbers |-> winningNumbers,
         summary |-> summaryAfter(gameSet.generatedGames, winningNumbers,
                                  Len(gameSet.generatedGames)),
         isManual |-> isManual]]

----------------------------------------------------------------------------
(* Inputs drawn by the environment *)

Game1 == <<1, 2, 3>>
Game2 == <<1, 2, 4>>

\* What the combination generator may answer (sorted by handleGenerateGames)
GeneratedOptions == {<<Game1>>, <<Game1, Game2>>}

\* The draw of each contest, as the API gives it (dezenas, in draw order)
DrawOf(contest) ==
    IF contest % 2 = 1 THEN <<"03", "01", "02">> ELSE <<"04", "01", "05">>

\* What the user may type in the manual form: a valid entry, a repeated
\* number, an empty field and a number outside the pool
ManualInputs ==
    {<<"02", "01", "04">>, <<"01", "01", "02">>, <<"01", "02", "">>, <<"01", "02", "06">>}

----------------------------------------------------------------------------
(* State *)

VARIABLES
    app,               \* "A" or "B": the variant that is running
    drawn,             \* the lottery: drawn[c] is the draw of contest c (dezenas)
    \* --- variant A (App, lines 602-889) ---
    view,              \* useState<View>
    history,           \* useState<HistoryItem[]>
    currentDetailId,   \* useState<string | null>, 0 for null
    isLoading,         \* the shared loading flag
    fetchedResults,    \* contests fetched by handleStartAnalysis
    generatedGames,    \* useState<GameResult>
    isRegularSetSaved,
    showManualInputs,  \* HistoryDetailPage's local state
    objects,           \* the per-contest record objects, by reference
    lotteryAppHistory, \* localStorage's item 'lotteryAppHistory'
    \* --- variant B (App, lines 951-1121; DetailPage, lines 1504-1797) ---
    currentPage,       \* useState('home')
    savedGames,        \* useState<(SavedGame | TeimosinhaSavedGame)[]>
    viewingGameId,     \* useState<string | null>, 0 for null
    targetContest,     \* useState<number | null>, 0 for null
    generatedGamesB,   \* GeneratePage's generatedGames
    savedAsGame,       \* GeneratePage's local state
    savedAsTeimosinha, \* GeneratePage's local state
    manualCheckActive, \* DetailPage's local state
    loterIA_savedGames, \* localStorage's item 'loterIA_savedGames'
    \* --- both variants ---
    passes,            \* async invocations waiting for a lookup
    uuid,              \* ids handed out so far (crypto.randomUUID, Date.now)
    \* --- observation ---
    last               \* the last operation on the saved sets

varsWorld == <<app, drawn>>
varsAonly == <<view, history, currentDetailId, isLoading, fetchedResults,
               generatedGames, isRegularSetSaved, showManualInputs, objects,
               lotteryAppHistory>>
varsBonly == <<currentPage, savedGames, viewingGameId, targetContest,
               generatedGamesB, savedAsGame, savedAsTeimosinha, manualCheckActive,
               loterIA_savedGames>>
\* what an action of variant A, of variant B, leaves alone
varsNotA == <<varsWorld, varsBonly>>
varsNotB == <<varsWorld, varsAonly>>
vars == <<varsWorld, varsAonly, varsBonly, passes, uuid, last>>

\* "no such item": what find gives when nothing matches
NoItem == [id |-> 0]

NoOp == [op |-> "init", id |-> 0, before |-> NoItem, numbers |-> <<>>]

\* history.find(g => g.id === id)
find(h, id) ==
    IF \E i \in 1..Len(h) : h[i].id = id
    THEN h[CHOOSE i \in 1..Len(h) : h[i].id = id /\ \A j \in 1..(i - 1) : h[j].id # id]
    ELSE NoItem

\* 'type' in g
hasType(g) == "type" \in DOMAIN g

\* The saved sets as values: a teimosinha set of variant A holds its records
\* by reference, and what is shown or written is what the references lead to
Deref(h, heap) ==
    [i \in 1..Len(h) |->
        IF "conferenceResults" \in DOMAIN h[i]
        THEN [h[i] EXCEPT !.conferenceResults =
                [k \in 1..Len(h[i].conferenceResults) |-> heap[h[i].conferenceResults[k]]]]
        ELSE h[i]]

\* JSON.stringify(items) as localStorage.setItem receives it (lines 629,
\* 972): the values the references lead to, without the properties whose
\* value is undefined
JSONstringify(h, heap) ==
    LET dropped(item) == {f \in DOMAIN item \cap {"manualCheck", "officialResult"} :
                            item[f] = [tag |-> "undefined"]}
    IN  [i \in 1..Len(h) |->
            [f \in (DOMAIN Deref(h, heap)[i]) \ dropped(h[i]) |-> Deref(h, heap)[i][f]]]

\* JSON.parse(item) (lines 622, 962) read the way the pages read a set: a
\* property that is not there reads as undefined
JSONparse(item) ==
    [i \in 1..Len(item) |->
        IF "isTeimosinha" \in DOMAIN item[i]
        THEN [f \in DOMAIN item[i] \cup {"manualCheck", "officialResult"} |->
                IF f \in DOMAIN item[i] THEN item[i][f] ELSE [tag |-> "undefined"]]
        ELSE item[i]]

\* history.map(g => g.id === id ? updated : g)
mapReplace(h, id, updated) ==
    [i \in 1..Len(h) |-> IF h[i].id = id THEN updated ELSE h[i]]

\* Math.max(...fetchedResults.map(r => r.contest), 0)
latestContest(fetched) ==
    IF fetched = <<>> THEN 0
    ELSE CHOOSE c \in {fetched[i] : i \in 1..Len(fetched)} :
            \A i \in 1..Len(fetched) : fetched[i] <= c

\* The passes in flight are a bag: the order in which they were started is
\* not state of the program
One(pass) == SetToBag({pass})

\* The answer of GET /<game>/<contest>: ok with the dezenas once the contest
\* is drawn.  A not-ok answer or a network error is possible at any time.
Available(contest) == contest \in 1..Len(drawn)

----------------------------------------------------------------------------
(* Variant A: rendering *)

\* renderView 'historyDetail': the set handed to HistoryDetailPage
DetailGameSet(h, id) ==
    IF find(h, id) # NoItem /\ ~hasType(find(h, id)) THEN find(h, id) ELSE NoItem

\* renderView 'teimosinhaDetail': the set handed to TeimosinhaDetailPage
DetailTeimosinha(h, id) ==
    IF find(h, id) # NoItem /\ hasType(find(h, id)) THEN find(h, id) ELSE NoItem

isApiConferenced(gameSet) == gameSet.conference.present /\ ~gameSet.conference.isManual
isManuallyConferenced(gameSet) == gameSet.conference.present /\ gameSet.conference.isManual

\* HistoryDetailPage's effect without its test of isApiConferenced (mutant)
AutoCheckWhateverTheRecord(h, v, id) ==
    IF v = "historyDetail" /\ DetailGameSet(h, id) # NoItem
    THEN SetToBag({[kind |-> "check", id |-> id, gameSet |-> DetailGameSet(h, id),
                    history |-> h]})
    ELSE EmptyBag

\* HistoryDetailPage's effect (lines 388-393) after a render with history h:
\* it calls onCheck, that is handleCheckResults (lines 782-789), which finds
\* the set in h, copies h and starts the lookup.
AutoCheck(h, v, id) ==
    IF v = "historyDetail" /\ DetailGameSet(h, id) # NoItem
       /\ ~isApiConferenced(DetailGameSet(h, id))
    THEN One([kind |-> "check", id |-> id, gameSet |-> DetailGameSet(h, id), history |-> h])
    ELSE EmptyBag

\* updateHistory without its localStorage.setItem (mutant)
updateHistorySetsStateOnly(h, heap) ==
    UNCHANGED lotteryAppHistory

\* updateHistory's write (line 629) of the history h, whose records are in heap
updateHistory(h, heap) ==
    lotteryAppHistory' = JSONstringify(h, heap)

\* The state after a handler left history h, the flag loading and the passes
\* rest: the render and its effects.  The form lives in HistoryDetailPage and
\* is lost when the page is unmounted.
Render(h, v, id, form, loading, rest) ==
    /\ BagCardinality(rest (+) AutoCheck(h, v, id)) <= MaxPasses
    /\ history' = h
    /\ view' = v
    /\ currentDetailId' = id
    /\ passes' = rest (+) AutoCheck(h, v, id)
    /\ isLoading' = (IF AutoCheck(h, v, id) # EmptyBag THEN TRUE ELSE loading)
    /\ showManualInputs' = (form /\ v = "historyDetail" /\ DetailGameSet(h, id) # NoItem)

----------------------------------------------------------------------------
(* Variant A: the handlers as functions of the history they close over *)

\* handleManualSubmit's validation (lines 408-427): the numbers kept by the
\* filter, and whether the form accepts them
numbersAsNumbers(manualNumbers) ==
    SelectSeq([i \in 1..Len(manualNumbers) |-> Number(manualNumbers[i])],
              LAMBDA n : n > 0 /\ n <= GAME_CONFIG.totalNumbers)

hasDuplicates(numbers) ==
    \E i, j \in 1..Len(numbers) : i < j /\ numbers[i] = numbers[j]

\* handleManualSubmit's validation without its test for repeated numbers
\* (mutant)
manualSubmitAcceptsRepeats(manualNumbers) ==
    Len(numbersAsNumbers(manualNumbers)) = GAME_CONFIG.numbersPerGame

manualSubmitAccepts(manualNumbers) ==
    /\ Len(numbersAsNumbers(manualNumbers)) = GAME_CONFIG.numbersPerGame
    /\ ~hasDuplicates(numbersAsNumbers(manualNumbers))

\* handleManualCheck (lines 840-847): the history it writes; h itself when it
\* returns early
manualCheck(h, id, numbers) ==
    IF find(h, id) = NoItem \/ hasType(find(h, id)) THEN h
    ELSE mapReplace(h, id, performConference(find(h, id), numbers, TRUE))

\* handleUndoManualCheck without its provenance test (mutant)
undoAnyCheck(h, id) ==
    IF find(h, id) = NoItem \/ "conference" \notin DOMAIN find(h, id) THEN h
    ELSE mapReplace(h, id, [find(h, id) EXCEPT !.conference = NoConference])

\* handleUndoManualCheck (lines 849-857).  A teimosinha set has no conference
\* field, so !gameSet.conference returns early for it.
undoManualCheck(h, id) ==
    IF \/ find(h, id) = NoItem
       \/ "conference" \notin DOMAIN find(h, id)
       \/ ~find(h, id).conference.present
       \/ ~find(h, id).conference.isManual
    THEN h
    ELSE mapReplace(h, id, [find(h, id) EXCEPT !.conference = NoConference])

\* handleCheckResults writing its copy of the history without the conferred
\* set (mutant)
checkResultsHistoryAsItWas(pass, dezenas) == pass.history

\* handleCheckResults after a successful lookup (lines 793-798): the copy of
\* the history taken before the await, with the set conferred
checkResultsHistory(pass, dezenas) ==
    mapReplace(pass.history, pass.id,
               performConference(pass.gameSet, MapNumber(dezenas), FALSE))

\* firstPending without its test of the status (mutant): the record at
\* position from, whatever its status
firstRecord(objs, refs, from) ==
    IF from > Len(refs) THEN 0 ELSE from

\* The first record at or after position from that is still pending, 0 if none
\* (the for loop of handleCheckTeimosinha skips the records already checked)
RECURSIVE firstPending(_, _, _)
firstPending(objs, refs, from) ==
    IF from > Len(refs) THEN 0
    ELSE IF objs[refs[from]].status = "pending" THEN from
    ELSE firstPending(objs, refs, from + 1)

\* lines 820-822 with the numbers drawn counted as the hits (mutant)
checkedRecordCountsTheDraw(record, theGame, dezenas) ==
    [contest |-> record.contest, status |-> "checked",
     winningNumbers |-> MapNumber(dezenas),
     hits |-> Len(MapNumber(dezenas))]

\* lines 820-822: the record object after a successful lookup
checkedRecord(record, theGame, dezenas) ==
    [contest |-> record.contest, status |-> "checked",
     winningNumbers |-> MapNumber(dezenas),
     hits |-> calculateHits(theGame, MapNumber(dezenas))]

\* The for loop of handleCheckTeimosinha (lines 814-830) from position from,
\* the lookups of the contests in answers giving a result and the others
\* none: the record objects when the loop is left
RECURSIVE checkTeimosinhaLoop(_, _, _, _)
checkTeimosinhaLoop(objs, gameSet, answers, from) ==
    LET refs == gameSet.conferenceResults
        at   == firstPending(objs, refs, from)
    IN  IF at = 0 THEN objs
        ELSE IF objs[refs[at]].contest \in answers
        THEN checkTeimosinhaLoop(
                [objs EXCEPT ![refs[at]] =
                    checkedRecord(objs[refs[at]], gameSet.theGame,
                                  drawn[objs[refs[at]].contest])],
                gameSet, answers, at + 1)
        ELSE objs

\* The indices of the records of a teimosinha set that are checked
checkedOf(objs, gameSet) ==
    {i \in 1..Len(gameSet.conferenceResults) :
        objs[gameSet.conferenceResults[i]].status = "checked"}

----------------------------------------------------------------------------
(* Variant A: actions *)

restA == <<fetchedResults, generatedGames, isRegularSetSaved, objects, uuid>>

\* The lottery holds the next contest
Draw ==
    /\ Len(drawn) < MaxContest
    /\ drawn' = Append(drawn, DrawOf(Len(drawn) + 1))
    /\ last' = NoOp
    /\ UNCHANGED <<app, varsAonly, varsBonly, passes, uuid>>

\* handleStartAnalysis (lines 652-682): the latest contest and the ones before
\* it are fetched, or the fetch fails and the page stays
HandleStartAnalysis ==
    /\ app = "A" /\ view = "home" /\ ~isLoading
    /\ \/ /\ fetchedResults' = [i \in 1..Len(drawn) |-> Len(drawn) - i + 1]
          /\ view' = "confirmation"
       \/ UNCHANGED <<fetchedResults, view>>
    /\ generatedGames' = <<>>
    /\ isRegularSetSaved' = FALSE
    /\ isLoading' = FALSE
    /\ UNCHANGED <<varsNotA, history, lotteryAppHistory, currentDetailId, showManualInputs, objects,
                   passes, uuid>>
    /\ last' = NoOp

\* handleConfirmAndAnalyze (lines 684-686)
HandleConfirmAndAnalyze ==
    /\ app = "A" /\ view = "confirmation"
    /\ generatedGames' = <<>>
    /\ isRegularSetSaved' = FALSE
    /\ view' = "results"
    /\ UNCHANGED <<varsNotA, history, lotteryAppHistory, currentDetailId, isLoading, fetchedResults,
                   showManualInputs, objects, passes, uuid>>
    /\ last' = NoOp

\* handleGenerateGames (lines 688-728); the buttons are disabled while loading
HandleGenerateGames ==
    /\ app = "A" /\ view = "results" /\ ~isLoading
    /\ \E games \in GeneratedOptions : generatedGames' = games
    /\ isRegularSetSaved' = FALSE
    /\ isLoading' = FALSE
    /\ UNCHANGED <<varsNotA, view, history, lotteryAppHistory, currentDetailId, fetchedResults,
                   showManualInputs, objects, passes, uuid>>
    /\ last' = NoOp

\* handleSaveGames (lines 730-738), behind its button (lines 283-288)
HandleSaveGames ==
    /\ app = "A" /\ view = "results"
    /\ generatedGames # <<>> /\ ~isRegularSetSaved /\ ~isLoading
    /\ uuid < MaxSets
    /\ LET newGameSet == [id |-> uuid + 1, gameType |-> "lotofacil", dateSaved |-> uuid + 1,
                          targetContest |-> latestContest(fetchedResults) + 1,
                          generatedGames |-> generatedGames,
                          conference |-> NoConference]
       IN  /\ Render(Append(history, newGameSet), view, currentDetailId, FALSE,
                     isLoading, passes)
           /\ updateHistory(Append(history, newGameSet), objects)
           /\ last' = [op |-> "save", id |-> uuid + 1, before |-> NoItem, wrote |-> TRUE]
    /\ uuid' = uuid + 1
    /\ isRegularSetSaved' = TRUE
    /\ UNCHANGED <<varsNotA, fetchedResults, generatedGames, objects>>

\* handleOpenTeimosinhaModal (button of lines 277-282) followed by the dialog's
\* onSave: handleSaveTeimosinha (lines 743-758)
HandleSaveTeimosinha ==
    /\ app = "A" /\ view = "results"
    /\ Len(generatedGames) = 1 /\ ~isLoading
    /\ uuid < MaxSets
    /\ \E numContests \in 1..MaxTeimosinha :
        LET id == uuid + 1
            startContest == latestContest(fetchedResults) + 1
            newTeimosinha ==
                [id |-> id, type |-> "teimosinha", gameType |-> "lotofacil", dateSaved |-> id,
                 startContest |-> startContest, numberOfContests |-> numContests,
                 theGame |-> generatedGames[1],
                 conferenceResults |-> [i \in 1..numContests |-> <<id, i>>]]
        IN  /\ objects' = [ref \in (DOMAIN objects) \cup {<<id, i>> : i \in 1..numContests} |->
                             IF ref \in DOMAIN objects THEN objects[ref]
                             ELSE [contest |-> startContest + ref[2] - 1, status |-> "pending"]]
            /\ Render(Append(history, newTeimosinha), view, currentDetailId, FALSE,
                      isLoading, passes)
            /\ updateHistory(Append(history, newTeimosinha), objects')
            /\ last' = [op |-> "save", id |-> id, before |-> NoItem, wrote |-> TRUE]
    /\ uuid' = uuid + 1
    /\ UNCHANGED <<varsNotA, fetchedResults, generatedGames, isRegularSetSaved>>

\* Leaving the results flow or a detail page.  fetchedResults, generatedGames
\* and isRegularSetSaved are read on the results page only, which is entered
\* through handleStartAnalysis and handleConfirmAndAnalyze, and these write all
\* three; currentDetailId is read on the detail pages only, which are entered
\* through handleViewDetails, and it writes it.  What they hold elsewhere is
\* never read, so it is recorded as the initial value.
Leave(v) ==
    /\ Render(history, v, 0, FALSE, isLoading, passes)
    /\ fetchedResults' = <<>>
    /\ generatedGames' = <<>>
    /\ isRegularSetSaved' = FALSE
    /\ last' = NoOp
    /\ UNCHANGED <<varsNotA, objects, uuid, lotteryAppHistory>>

\* onNavigateToHistory of HomePage and ResultsPage
NavigateToHistory ==
    /\ app = "A" /\ view \in {"home", "results"}
    /\ Leave("history")

\* onBack of ConfirmationPage, ResultsPage and HistoryPage
BackToHome ==
    /\ app = "A" /\ view \in {"confirmation", "results", "history"}
    /\ Leave("home")

\* onBack of the two detail pages
BackToHistory ==
    /\ app = "A" /\ view \in {"historyDetail", "teimosinhaDetail"}
    /\ Leave("history")

\* handleViewDetails (lines 760-769); mounting HistoryDetailPage runs its effect
HandleViewDetails ==
    /\ app = "A" /\ view = "history"
    /\ \E i \in 1..Len(history) :
        LET v == IF hasType(history[i]) THEN "teimosinhaDetail" ELSE "historyDetail" IN
        /\ Render(history, v, history[i].id, FALSE, isLoading, passes)
        /\ last' = [op |-> "view", id |-> history[i].id, before |-> history[i],
                    lookup |-> (AutoCheck(history, v, history[i].id) # EmptyBag),
                    wrote |-> FALSE]
    /\ UNCHANGED <<varsNotA, restA, lotteryAppHistory>>

\* "Conferir Manualmente" (lines 460-462) opens the form
OpenManualInputs ==
    /\ app = "A" /\ view = "historyDetail"
    /\ DetailGameSet(history, currentDetailId) # NoItem
    /\ ~isApiConferenced(DetailGameSet(history, currentDetailId))
    /\ ~isManuallyConferenced(DetailGameSet(history, currentDetailId))
    /\ ~showManualInputs
    /\ showManualInputs' = TRUE
    /\ UNCHANGED <<varsNotA, view, history, lotteryAppHistory, currentDetailId, isLoading, restA, passes>>
    /\ last' = NoOp

\* "Cancelar" (line 486) closes it
CancelManualInputs ==
    /\ app = "A" /\ view = "historyDetail" /\ showManualInputs
    /\ showManualInputs' = FALSE
    /\ UNCHANGED <<varsNotA, view, history, lotteryAppHistory, currentDetailId, isLoading, restA, passes>>
    /\ last' = NoOp

\* handleManualSubmit (lines 407-432), the form's "Conferir", with one of the
\* entries inputs typed: a rejected entry leaves everything as it is, an
\* accepted one goes to handleManualCheck
ManualSubmit(inputs) ==
    /\ app = "A" /\ view = "historyDetail" /\ showManualInputs
    /\ DetailGameSet(history, currentDetailId) # NoItem
    /\ \E manualNumbers \in inputs :
        LET id == DetailGameSet(history, currentDetailId).id IN
        IF manualSubmitAccepts(manualNumbers)
        THEN /\ Render(manualCheck(history, id, numbersAsNumbers(manualNumbers)),
                       view, currentDetailId, FALSE, isLoading, passes)
             /\ updateHistory(manualCheck(history, id, numbersAsNumbers(manualNumbers)), objects)
             /\ last' = [op |-> "manualCheck", id |-> id, before |-> find(history, id),
                         input |-> manualNumbers,
                         numbers |-> numbersAsNumbers(manualNumbers), wrote |-> TRUE]
        ELSE /\ last' = [op |-> "manualRejected", id |-> id, before |-> find(history, id),
                         input |-> manualNumbers,
                         numbers |-> numbersAsNumbers(manualNumbers), wrote |-> FALSE]
             /\ UNCHANGED <<view, history, lotteryAppHistory, currentDetailId, isLoading, showManualInputs, passes>>
    /\ UNCHANGED <<varsNotA, restA>>

HandleManualSubmit == ManualSubmit(ManualInputs)

\* "Desfazer Conferência Manual" (lines 463-465): handleUndoManualCheck
HandleUndoManualCheck ==
    /\ app = "A" /\ view = "historyDetail"
    /\ DetailGameSet(history, currentDetailId) # NoItem
    /\ isManuallyConferenced(DetailGameSet(history, currentDetailId))
    /\ LET id == DetailGameSet(history, currentDetailId).id IN
        /\ Render(undoManualCheck(history, id), view, currentDetailId,
                  showManualInputs, isLoading, passes)
        /\ updateHistory(undoManualCheck(history, id), objects)
        /\ last' = [op |-> "undo", id |-> id, before |-> find(history, id),
                    wrote |-> (undoManualCheck(history, id) # history)]
    /\ UNCHANGED <<varsNotA, restA>>

\* handleCheckResults after its await (lines 792-803)
CheckResultsResponse ==
    /\ app = "A"
    /\ \E pass \in BagToSet(passes) :
        /\ pass.kind = "check"
        /\ \/ /\ Available(pass.gameSet.targetContest)
              /\ LET dezenas == drawn[pass.gameSet.targetContest] IN
                 /\ \E h \in {checkResultsHistory(pass, dezenas)} :
                        Render(h, view, currentDetailId,
                               showManualInputs, FALSE, passes (-) One(pass))
                 /\ updateHistory(checkResultsHistory(pass, dezenas), objects)
                 /\ last' = [op |-> "officialCheck", id |-> pass.id,
                             before |-> find(history, pass.id),
                             numbers |-> MapNumber(dezenas), wrote |-> TRUE]
           \/ /\ passes' = passes (-) One(pass)
              /\ isLoading' = FALSE
              /\ last' = [op |-> "checkUnavailable", id |-> pass.id,
                          before |-> find(history, pass.id), wrote |-> FALSE]
              /\ UNCHANGED <<view, history, lotteryAppHistory, currentDetailId, showManualInputs>>
    /\ UNCHANGED <<varsNotA, restA>>

\* The end of handleCheckTeimosinha (lines 832-837): one write of the history
\* the handler closed over when it was called, if some record was checked
TeimosinhaFinish(pass, updated) ==
    IF updated
    THEN /\ Render(mapReplace(pass.history, pass.id, pass.gameSet),
                   view, currentDetailId, showManualInputs, FALSE, passes (-) One(pass))
         /\ updateHistory(mapReplace(pass.history, pass.id, pass.gameSet), objects')
    ELSE /\ passes' = passes (-) One(pass)
         /\ isLoading' = FALSE
         /\ UNCHANGED <<view, history, lotteryAppHistory, currentDetailId, showManualInputs>>

\* "Atualizar Conferência" (lines 554-556, disabled while loading):
\* handleCheckTeimosinha up to its first await (lines 806-817)
HandleCheckTeimosinha ==
    /\ app = "A" /\ view = "teimosinhaDetail" /\ ~isLoading
    /\ DetailTeimosinha(history, currentDetailId) # NoItem
    /\ LET gameSet == DetailTeimosinha(history, currentDetailId)
           at == firstPending(objects, gameSet.conferenceResults, 1)
       IN  /\ IF at = 0
              THEN /\ isLoading' = FALSE
                   /\ UNCHANGED passes
              ELSE /\ BagCardinality(passes) < MaxPasses
                   /\ isLoading' = TRUE
                   /\ passes' = passes (+) One(
                        [kind |-> "teimosinha", id |-> gameSet.id, gameSet |-> gameSet,
                         history |-> history, at |-> at, updated |-> FALSE,
                         checkedBefore |-> checkedOf(objects, gameSet), ok |-> {}])
           /\ last' = [op |-> "checkTeimosinha", id |-> gameSet.id, before |-> gameSet,
                       checkedBefore |-> checkedOf(objects, gameSet),
                       lookup |-> (at # 0), wrote |-> FALSE]
    /\ UNCHANGED <<varsNotA, view, history, lotteryAppHistory, currentDetailId, showManualInputs, restA>>

\* handleCheckTeimosinha after an await (lines 818-837): the record is checked
\* in place and the loop goes on to the next pending record, or the loop is
\* left at the first lookup that gives no result
CheckTeimosinhaResponse ==
    /\ app = "A"
    /\ \E pass \in BagToSet(passes) :
        /\ pass.kind = "teimosinha"
        /\ LET refs == pass.gameSet.conferenceResults
               ref  == refs[pass.at]
           IN
           \/ /\ Available(objects[ref].contest)
              /\ LET newObjects == [objects EXCEPT ![ref] =
                          checkedRecord(objects[ref], pass.gameSet.theGame,
                                        drawn[objects[ref].contest])]
                     next == firstPending(newObjects, refs, pass.at + 1)
                 IN  /\ objects' = newObjects
                     /\ IF next # 0
                        THEN /\ passes' = (passes (-) One(pass)) (+) One(
                                    [pass EXCEPT !.at = next, !.updated = TRUE,
                                                 !.ok = pass.ok \cup {pass.at}])
                             /\ UNCHANGED <<view, history, lotteryAppHistory, currentDetailId, isLoading,
                                            showManualInputs>>
                        ELSE TeimosinhaFinish(pass, TRUE)
                     /\ last' = [op |-> "teimosinhaLookup", id |-> pass.id,
                                 before |-> find(history, pass.id),
                                 checkedBefore |-> pass.checkedBefore,
                                 ok |-> pass.ok \cup {pass.at}, failed |-> 0,
                                 done |-> (next = 0), wrote |-> (next = 0)]
           \/ /\ UNCHANGED objects
              /\ TeimosinhaFinish(pass, pass.updated)
              /\ last' = [op |-> "teimosinhaLookup", id |-> pass.id,
                          before |-> find(history, pass.id),
                          checkedBefore |-> pass.checkedBefore,
                          ok |-> pass.ok, failed |-> pass.at,
                          done |-> TRUE, wrote |-> pass.updated]
    /\ UNCHANGED <<varsNotA, fetchedResults, generatedGames, isRegularSetSaved, uuid>>

NextA ==
    \/ HandleStartAnalysis
    \/ HandleConfirmAndAnalyze
    \/ HandleGenerateGames
    \/ HandleSaveGames
    \/ HandleSaveTeimosinha
    \/ NavigateToHistory
    \/ BackToHome
    \/ BackToHistory
    \/ HandleViewDetails
    \/ OpenManualInputs
    \/ CancelManualInputs
    \/ HandleManualSubmit
    \/ HandleUndoManualCheck
    \/ CheckResultsResponse
    \/ HandleCheckTeimosinha
    \/ CheckTeimosinhaResponse

----------------------------------------------------------------------------
(* Variant B: values and pure helpers *)

\* An optional field: absent (undefined), null, or a value
Undefined == [tag |-> "undefined"]
Null == [tag |-> "null"]
Some(v) == [tag |-> "value", v |-> v]
Truthy(x) == x.tag = "value"

\* parseInt(s, 10): NaN for the empty string
NaN == 0 - 1
parseInt(s) == IF s = "" THEN NaN ELSE Number(s)

\* arr.sort((a, b) => a - b)
sortNumbers(arr) == SortSeq(arr, LAMBDA a, b : a < b)

\* data.dezenas.map(d => parseInt(d, 10)).sort((a, b) => a - b)
drawnNumbersOf(dezenas) ==
    sortNumbers([i \in 1..Len(dezenas) |-> parseInt(dezenas[i])])

\* gameNumbers.filter(n => drawnNumbers.includes(n)).length (lines 1480, 1562, 1650)
hitsOf(numbers, drawnNumbers) ==
    Len(SelectSeq(numbers, LAMBDA n : includes(drawnNumbers, n)))

\* DetailPage's calculateHits (lines 1648-1651): null when there is no draw
calculateHitsDetail(gameNumbers, drawnNumbers) ==
    IF Len(drawnNumbers) = 0 THEN Null
    ELSE Some(hitsOf(gameNumbers, drawnNumbers))

\* HitsDistributionSummary's hitsByTier (lines 1475-1485) over the first n games
RECURSIVE hitsByTier(_, _, _)
hitsByTier(games, result, n) ==
    IF n = 0 THEN <<>>
    ELSE LET summary == hitsByTier(games, result, n - 1)
             hits    == hitsOf(games[n].numbers, result)
         IN  IF includes(GAME_CONFIG.prizeTiers, hits)
             THEN [t \in (DOMAIN summary) \cup {hits} |->
                     IF t = hits
                     THEN (IF hits \in DOMAIN summary THEN summary[hits] ELSE 0) + 1
                     ELSE summary[t]]
             ELSE summary

\* savedGames.find(g => g.id === id)
findB(sg, id) ==
    IF \E i \in 1..Len(sg) : sg[i].id = id
    THEN sg[CHOOSE i \in 1..Len(sg) : sg[i].id = id /\ \A j \in 1..(i - 1) : sg[j].id # id]
    ELSE NoItem

\* const resultToUse = game.officialResult || game.manualCheck || [] (line 1512)
resultToUse(game) ==
    IF Truthy(game.officialResult) THEN game.officialResult.v
    ELSE IF Truthy(game.manualCheck) THEN game.manualCheck.v
    ELSE <<>>

\* handleSaveManualCheck's validation (lines 1603-1627)
manualNumbersB(manualNumbers) ==
    SelectSeq([i \in 1..Len(manualNumbers) |-> parseInt(manualNumbers[i])],
              LAMBDA n : n # NaN /\ n > 0)

saveManualCheckAccepts(manualNumbers) ==
    /\ Len(manualNumbersB(manualNumbers)) = GAME_CONFIG.numbersPerGame
    /\ ~hasDuplicates(manualNumbersB(manualNumbers))
    /\ ~\E i \in 1..Len(manualNumbersB(manualNumbers)) :
            \/ manualNumbersB(manualNumbers)[i] < 1
            \/ manualNumbersB(manualNumbers)[i] > GAME_CONFIG.totalNumbers

\* setSavedGames(prev => prev.map(g => g.id === id ? f(g) : g)) of
\* handleSaveManualCheck (line 1628)
saveManualCheck(prev, id, numbers) ==
    [i \in 1..Len(prev) |->
        IF prev[i].id = id
        THEN [prev[i] EXCEPT !.manualCheck = Some(sortNumbers(numbers)),
                             !.officialResult = Null]
        ELSE prev[i]]

\* handleRemoveManualCheck (lines 1632-1644)
removeManualCheck(prev, id) ==
    [i \in 1..Len(prev) |->
        IF prev[i].id = id THEN [prev[i] EXCEPT !.manualCheck = Null] ELSE prev[i]]

\* fetchOfficialResult's update without its manualCheck: null (mutant)
officialResultKeepsManual(prev, id, dezenas) ==
    [i \in 1..Len(prev) |->
        IF prev[i].id = id
        THEN [prev[i] EXCEPT !.officialResult = Some(drawnNumbersOf(dezenas))]
        ELSE prev[i]]

\* fetchOfficialResult's update without its g.id === game.id (mutant)
officialResultOfEverySet(prev, id, dezenas) ==
    [i \in 1..Len(prev) |->
        [prev[i] EXCEPT !.officialResult = Some(drawnNumbersOf(dezenas)),
                        !.manualCheck = Null]]

\* fetchOfficialResult's update (line 1524)
officialResult(prev, id, dezenas) ==
    [i \in 1..Len(prev) |->
        IF prev[i].id = id
        THEN [prev[i] EXCEPT !.officialResult = Some(drawnNumbersOf(dezenas)),
                             !.manualCheck = Null]
        ELSE prev[i]]

\* contestsToUpdate (lines 1542-1543): the contests of the teimosinha that
\* have no drawnNumbers yet
contestsToUpdate(teimosinha) ==
    {c \in teimosinha.targetContest..(teimosinha.targetContest + teimosinha.teimosinhaContests - 1) :
        c \notin DOMAIN teimosinha.results}

\* updatedResults (lines 1555-1565): the results the effect saw when it
\* started, with an entry for every contest whose lookup gave a result
updatedResults(results, numbers, answered) ==
    [c \in (DOMAIN results) \cup answered |->
        IF c \in answered
        THEN [drawnNumbers |-> drawnNumbersOf(drawn[c]),
              hits |-> hitsOf(numbers, drawnNumbersOf(drawn[c]))]
        ELSE results[c]]

\* line 1568
teimosinhaResults(prev, id, newResults) ==
    [i \in 1..Len(prev) |->
        IF prev[i].id = id THEN [prev[i] EXCEPT !.results = newResults] ELSE prev[i]]

----------------------------------------------------------------------------
(* Variant B: rendering and actions *)

\* What the generator may answer: Game objects
GeneratedOptionsB == {<<[numbers |-> Game1]>>, <<[numbers |-> Game1], [numbers |-> Game2]>>}

\* DetailPage's official lookup effect without its !game.isTeimosinha (mutant)
DetailEffectsOfAnyMode(game) ==
    IF ~Truthy(game.officialResult)
    THEN One([kind |-> "official", id |-> game.id, targetContest |-> game.targetContest])
    ELSE IF game.isTeimosinha /\ contestsToUpdate(game) # {}
         THEN One([kind |-> "teimosinha", id |-> game.id, results |-> game.results,
                   contests |-> contestsToUpdate(game), numbers |-> game.games[1].numbers])
         ELSE EmptyBag

\* DetailPage's two lookup effects (lines 1515-1536 and 1539-1579) for the set
\* on view: what they start when they run
DetailEffects(game) ==
    IF ~game.isTeimosinha
    THEN IF ~Truthy(game.officialResult)
         THEN One([kind |-> "official", id |-> game.id, targetContest |-> game.targetContest])
         ELSE EmptyBag
    ELSE IF contestsToUpdate(game) # {}
         THEN One([kind |-> "teimosinha", id |-> game.id, results |-> game.results,
                   contests |-> contestsToUpdate(game), numbers |-> game.games[1].numbers])
         ELSE EmptyBag

\* Whether a render of the detail page runs the lookup effect of the set on
\* view: on mount, and when a dependency changed (officialResult of a plain
\* set, the object of a teimosinha set)
EffectRuns(sg, page, id, mounted, replaced) ==
    /\ page = "details"
    /\ findB(sg, id) # NoItem
    /\ \/ mounted
       \/ /\ replaced = id
          /\ \/ findB(sg, id).isTeimosinha
             \/ findB(sg, id).officialResult # findB(savedGames, id).officialResult

\* The persistence effect (lines 970-976) after a render with the saved sets
\* sg: it runs when savedGames is another list
persistSavedGames(sg) ==
    loterIA_savedGames' = (IF sg # savedGames THEN JSONstringify(sg, <<>>)
                           ELSE loterIA_savedGames)

\* The state after an update left the saved sets sg: the render and its
\* effects.  replaced is the id whose object the update replaced, 0 if none.
RenderB(sg, page, id, active, rest, mounted, replaced) ==
    LET started == IF EffectRuns(sg, page, id, mounted, replaced)
                   THEN DetailEffects(findB(sg, id)) ELSE EmptyBag
    IN  /\ BagCardinality(rest (+) started) <= MaxPasses
        /\ savedGames' = sg
        /\ persistSavedGames(sg)
        /\ currentPage' = page
        /\ viewingGameId' = id
        /\ manualCheckActive' = active
        /\ passes' = rest (+) started

restB == <<targetContest, generatedGamesB, savedAsGame, savedAsTeimosinha, uuid>>

\* handleSelectGameType (lines 988-1031)
HandleSelectGameType ==
    /\ app = "B" /\ currentPage = "home"
    /\ \/ /\ targetContest' = Len(drawn) + 1
          /\ currentPage' = "confirm"
       \/ UNCHANGED <<targetContest, currentPage>>
    /\ last' = NoOp
    /\ UNCHANGED <<varsNotB, savedGames, loterIA_savedGames, viewingGameId, generatedGamesB, savedAsGame,
                   savedAsTeimosinha, manualCheckActive, passes, uuid>>

\* ConfirmationPage's onConfirm (line 1055)
ConfirmB ==
    /\ app = "B" /\ currentPage = "confirm"
    /\ currentPage' = "generate"
    /\ last' = NoOp
    /\ UNCHANGED <<varsNotB, savedGames, loterIA_savedGames, viewingGameId, targetContest, generatedGamesB,
                   savedAsGame, savedAsTeimosinha, manualCheckActive, passes, uuid>>

\* handleAnalysisAndGeneration (lines 1245-1327)
HandleAnalysisAndGeneration ==
    /\ app = "B" /\ currentPage = "generate"
    /\ \E games \in GeneratedOptionsB : generatedGamesB' = games
    /\ savedAsGame' = FALSE
    /\ savedAsTeimosinha' = FALSE
    /\ last' = NoOp
    /\ UNCHANGED <<varsNotB, currentPage, savedGames, loterIA_savedGames, viewingGameId, targetContest,
                   manualCheckActive, passes, uuid>>

\* onSaveGames building a set that already carries a manual record (mutant)
newSavedGameAlreadyChecked(id, games, isTeimosinha, teimosinhaContests) ==
    IF isTeimosinha /\ teimosinhaContests # 0
    THEN [id |-> id, type |-> "lotofacil", createdAt |-> id, games |-> games, targetContest |-> targetContest,
          isTeimosinha |-> isTeimosinha, manualCheck |-> Undefined,
          officialResult |-> Undefined,
          teimosinhaContests |-> teimosinhaContests, results |-> <<>>]
    ELSE [id |-> id, type |-> "lotofacil", createdAt |-> id, games |-> games, targetContest |-> targetContest,
          isTeimosinha |-> isTeimosinha, manualCheck |-> Some(games[1].numbers),
          officialResult |-> Undefined]

\* onSaveGames (lines 1063-1078): the set appended to the saved sets
newSavedGame(id, games, isTeimosinha, teimosinhaContests) ==
    IF isTeimosinha /\ teimosinhaContests # 0
    THEN [id |-> id, type |-> "lotofacil", createdAt |-> id, games |-> games, targetContest |-> targetContest,
          isTeimosinha |-> isTeimosinha, manualCheck |-> Undefined,
          officialResult |-> Undefined,
          teimosinhaContests |-> teimosinhaContests, results |-> <<>>]
    ELSE [id |-> id, type |-> "lotofacil", createdAt |-> id, games |-> games, targetContest |-> targetContest,
          isTeimosinha |-> isTeimosinha, manualCheck |-> Undefined,
          officialResult |-> Undefined]

\* handleSaveGame (lines 1329-1334), behind "Salvar Jogo" (lines 1374-1376)
HandleSaveGame ==
    /\ app = "B" /\ currentPage = "generate"
    /\ Len(generatedGamesB) > 0 /\ ~savedAsGame
    /\ targetContest # 0
    /\ uuid < MaxSets
    /\ RenderB(Append(savedGames, newSavedGame(uuid + 1, generatedGamesB, FALSE, 0)),
               currentPage, viewingGameId, manualCheckActive, passes, FALSE, 0)
    /\ savedAsGame' = TRUE
    /\ uuid' = uuid + 1
    /\ last' = [op |-> "save", id |-> uuid + 1, before |-> NoItem, wrote |-> TRUE]
    /\ UNCHANGED <<varsNotB, targetContest, generatedGamesB, savedAsTeimosinha>>

\* handleSaveTeimosinha behind a button and a dialog that do not look at the
\* number of generated combinations (mutant)
HandleSaveTeimosinhaOfAnyNumber ==
    /\ app = "B" /\ currentPage = "generate"
    /\ Len(generatedGamesB) > 0 /\ ~savedAsTeimosinha
    /\ targetContest # 0
    /\ uuid < MaxSets
    /\ \E contests \in 1..MaxTeimosinha :
        RenderB(Append(savedGames, newSavedGame(uuid + 1, generatedGamesB, TRUE, contests)),
                currentPage, viewingGameId, manualCheckActive, passes, FALSE, 0)
    /\ savedAsTeimosinha' = TRUE
    /\ uuid' = uuid + 1
    /\ last' = [op |-> "save", id |-> uuid + 1, before |-> NoItem, wrote |-> TRUE]
    /\ UNCHANGED <<varsNotB, targetContest, generatedGamesB, savedAsGame>>

\* handleSaveTeimosinha (lines 1336-1342), behind "Salvar como Teimosinha" and
\* the dialog (lines 1377-1402)
HandleSaveTeimosinhaB ==
    /\ app = "B" /\ currentPage = "generate"
    /\ Len(generatedGamesB) = 1 /\ ~savedAsTeimosinha
    /\ targetContest # 0
    /\ uuid < MaxSets
    /\ \E contests \in 1..MaxTeimosinha :
        RenderB(Append(savedGames, newSavedGame(uuid + 1, generatedGamesB, TRUE, contests)),
                currentPage, viewingGameId, manualCheckActive, passes, FALSE, 0)
    /\ savedAsTeimosinha' = TRUE
    /\ uuid' = uuid + 1
    /\ last' = [op |-> "save", id |-> uuid + 1, before |-> NoItem, wrote |-> TRUE]
    /\ UNCHANGED <<varsNotB, targetContest, generatedGamesB, savedAsGame>>

\* Leaving a page.  GeneratePage's and DetailPage's local state goes with the
\* page; targetContest is read on the generate page only, which is entered
\* through handleSelectGameType, and viewingGameId on the detail page only,
\* which is entered through onView: what they hold elsewhere is never read, so
\* it is recorded as the initial value.
LeaveB(page) ==
    /\ RenderB(savedGames, page, 0, FALSE, passes, FALSE, 0)
    /\ targetContest' = 0
    /\ generatedGamesB' = <<>>
    /\ savedAsGame' = FALSE
    /\ savedAsTeimosinha' = FALSE
    /\ last' = NoOp
    /\ UNCHANGED <<varsNotB, uuid>>

\* AppHeader's onHistory (line 1105)
OnHistory ==
    /\ app = "B" /\ currentPage # "history"
    /\ LeaveB("history")

\* resetToHome (lines 1033-1039)
ResetToHome ==
    /\ app = "B" /\ currentPage # "home"
    /\ LeaveB("home")

\* HistoryPage's onView (line 1081): DetailPage is mounted and its effects run
OnView ==
    /\ app = "B" /\ currentPage = "history"
    /\ \E i \in 1..Len(savedGames) :
        /\ RenderB(savedGames, "details", savedGames[i].id, FALSE, passes, TRUE, 0)
        /\ last' = [op |-> "view", id |-> savedGames[i].id, before |-> savedGames[i],
                    lookup |-> (DetailEffects(savedGames[i]) # EmptyBag), wrote |-> FALSE]
    /\ UNCHANGED <<varsNotB, restB>>

\* HistoryPage's onDelete (lines 1081-1085)
OnDelete ==
    /\ app = "B" /\ currentPage = "history"
    /\ \E i \in 1..Len(savedGames) :
        /\ RenderB(SelectSeq(savedGames, LAMBDA game : game.id # savedGames[i].id),
                   currentPage, viewingGameId, manualCheckActive, passes, FALSE, 0)
        /\ last' = [op |-> "delete", id |-> savedGames[i].id, before |-> savedGames[i],
                    wrote |-> TRUE]
    /\ UNCHANGED <<varsNotB, restB>>

\* The plain set on view, when the page offers the manual check (lines 1704-1744)
ManualCheckOffered ==
    /\ currentPage = "details"
    /\ findB(savedGames, viewingGameId) # NoItem
    /\ ~findB(savedGames, viewingGameId).isTeimosinha
    /\ ~Truthy(findB(savedGames, viewingGameId).officialResult)

\* "Conferir Manualmente" / "Cancelar Conferência Manual" (lines 1709-1711)
ToggleManualCheck ==
    /\ app = "B" /\ ManualCheckOffered
    /\ manualCheckActive' = ~manualCheckActive
    /\ last' = NoOp
    /\ UNCHANGED <<varsNotB, currentPage, savedGames, loterIA_savedGames, viewingGameId, restB, passes>>

\* handleSaveManualCheck (lines 1601-1630), behind "Salvar Conferência", with
\* one of the entries inputs typed
SaveManualCheck(inputs) ==
    /\ app = "B" /\ ManualCheckOffered /\ manualCheckActive
    /\ \E manualNumbers \in inputs :
        IF saveManualCheckAccepts(manualNumbers)
        THEN /\ RenderB(saveManualCheck(savedGames, viewingGameId, manualNumbersB(manualNumbers)),
                        currentPage, viewingGameId, FALSE, passes, FALSE, viewingGameId)
             /\ last' = [op |-> "manualCheck", id |-> viewingGameId,
                         before |-> findB(savedGames, viewingGameId),
                         input |-> manualNumbers,
                         numbers |-> manualNumbersB(manualNumbers), wrote |-> TRUE]
        ELSE /\ last' = [op |-> "manualRejected", id |-> viewingGameId,
                         before |-> findB(savedGames, viewingGameId),
                         input |-> manualNumbers,
                         numbers |-> manualNumbersB(manualNumbers), wrote |-> FALSE]
             /\ UNCHANGED <<currentPage, savedGames, loterIA_savedGames, viewingGameId, manualCheckActive, passes>>
    /\ UNCHANGED <<varsNotB, restB>>

HandleSaveManualCheck == SaveManualCheck(ManualInputs)

\* handleRemoveManualCheck (lines 1632-1646), behind "Remover Conferência"
\* (lines 1712-1716)
HandleRemoveManualCheck ==
    /\ app = "B" /\ ManualCheckOffered
    /\ Truthy(findB(savedGames, viewingGameId).manualCheck)
    /\ RenderB(removeManualCheck(savedGames, viewingGameId), currentPage, viewingGameId,
               FALSE, passes, FALSE, viewingGameId)
    /\ last' = [op |-> "undo", id |-> viewingGameId,
                before |-> findB(savedGames, viewingGameId), wrote |-> TRUE]
    /\ UNCHANGED <<varsNotB, restB>>

\* fetchOfficialResult after its await (lines 1521-1532)
OfficialResultResponse ==
    /\ app = "B"
    /\ \E pass \in BagToSet(passes) :
        /\ pass.kind = "official"
        /\ \/ /\ Available(pass.targetContest)
              /\ RenderB(officialResult(savedGames, pass.id, drawn[pass.targetContest]),
                         currentPage, viewingGameId, manualCheckActive,
                         passes (-) One(pass), FALSE, pass.id)
              /\ last' = [op |-> "officialCheck", id |-> pass.id,
                          before |-> findB(savedGames, pass.id),
                          numbers |-> MapNumber(drawn[pass.targetContest]), wrote |-> TRUE]
           \/ /\ passes' = passes (-) One(pass)
              /\ last' = [op |-> "checkUnavailable", id |-> pass.id,
                          before |-> findB(savedGames, pass.id), wrote |-> FALSE]
              /\ UNCHANGED <<currentPage, savedGames, loterIA_savedGames, viewingGameId, manualCheckActive>>
    /\ UNCHANGED <<varsNotB, restB>>

\* updateResults after Promise.all (lines 1552-1574): every lookup has been
\* answered, each one on its own with a result or with none
TeimosinhaResultsResponse ==
    /\ app = "B"
    /\ \E pass \in BagToSet(passes) :
        /\ pass.kind = "teimosinha"
        /\ \E answered \in SUBSET {c \in pass.contests : Available(c)} :
            /\ IF answered # {}
               THEN RenderB(teimosinhaResults(savedGames, pass.id,
                                updatedResults(pass.results, pass.numbers, answered)),
                            currentPage, viewingGameId, manualCheckActive,
                            passes (-) One(pass), FALSE, pass.id)
               ELSE /\ passes' = passes (-) One(pass)
                    /\ UNCHANGED <<currentPage, savedGames, loterIA_savedGames, viewingGameId, manualCheckActive>>
            /\ last' = [op |-> "teimosinhaPass", id |-> pass.id,
                        before |-> findB(savedGames, pass.id),
                        checkedBefore |-> DOMAIN pass.results,
                        asked |-> pass.contests, answered |-> answered,
                        wrote |-> (answered # {})]
    /\ UNCHANGED <<varsNotB, restB>>

NextB ==
    \/ HandleSelectGameType
    \/ ConfirmB
    \/ HandleAnalysisAndGeneration
    \/ HandleSaveGame
    \/ HandleSaveTeimosinhaB
    \/ OnHistory
    \/ ResetToHome
    \/ OnView
    \/ OnDelete
    \/ ToggleManualCheck
    \/ HandleSaveManualCheck
    \/ HandleRemoveManualCheck
    \/ OfficialResultResponse
    \/ TeimosinhaResultsResponse

----------------------------------------------------------------------------
(* Specification *)

InitA ==
    /\ view = "home"
    /\ history = <<>>
    /\ currentDetailId = 0
    /\ isLoading = FALSE
    /\ fetchedResults = <<>>
    /\ generatedGames = <<>>
    /\ isRegularSetSaved = FALSE
    /\ showManualInputs = FALSE
    /\ objects = <<>>
    /\ lotteryAppHistory = <<>>

InitB ==
    /\ currentPage = "home"
    /\ savedGames = <<>>
    /\ viewingGameId = 0
    /\ targetContest = 0
    /\ generatedGamesB = <<>>
    /\ savedAsGame = FALSE
    /\ savedAsTeimosinha = FALSE
    /\ manualCheckActive = FALSE
    /\ loterIA_savedGames = <<>>

\* The application as it starts, nothing saved, contest 1 drawn
InitApp ==
    /\ app \in {"A", "B"}
    /\ drawn = <<DrawOf(1)>>
    /\ InitA
    /\ InitB
    /\ passes = EmptyBag
    /\ uuid = 0

Init ==
    /\ InitApp
    /\ last = NoOp

Next == Draw \/ NextA \/ NextB

Spec == Init /\ [][Next]_vars

----------------------------------------------------------------------------
(* calculateHits on its own: the inputs are drawn from every sequence of    *)
(* numbersPerGame numbers of the pool, repeated numbers included (neither   *)
(* the generator's answer nor the API's is checked for them)                *)

\* every sequence of n numbers of 1..GAME_CONFIG.totalNumbers
NumberSeqs(n) == [1..n -> 1..GAME_CONFIG.totalNumbers]

\* The game and the draw a call is about to be made with
InitHits ==
    /\ InitApp
    /\ \E game \in NumberSeqs(GAME_CONFIG.numbersPerGame),
          winningNumbers \in NumberSeqs(GAME_CONFIG.numbersPerGame) :
        last = [op |-> "hitsInput", id |-> 0, before |-> NoItem, game |-> game,
                winningNumbers |-> winningNumbers]

\* calculateHits (lines 68-70) applied to the game and the draw
CalculateHits ==
    /\ app = "A" /\ last.op = "hitsInput"
    /\ last' = [op |-> "calculateHits", id |-> 0, before |-> NoItem, game |-> last.game,
                winningNumbers |-> last.winningNumbers,
                hits |-> calculateHits(last.game, last.winningNumbers)]
    /\ UNCHANGED <<varsWorld, varsAonly, varsBonly, passes, uuid>>

\* DetailPage's calculateHits (lines 1648-1651) applied to the game and the draw
CalculateHitsDetail ==
    /\ app = "B" /\ last.op = "hitsInput"
    /\ last' = [op |-> "calculateHits", id |-> 0, before |-> NoItem, game |-> last.game,
                winningNumbers |-> last.winningNumbers,
                hits |-> calculateHitsDetail(last.game, last.winningNumbers).v]
    /\ UNCHANGED <<varsWorld, varsAonly, varsBonly, passes, uuid>>

NextHits == CalculateHits \/ CalculateHitsDetail

SpecHits == InitHits /\ [][NextHits]_vars

----------------------------------------------------------------------------
(* The undo handlers on their own: handleUndoManualCheck(id) and            *)
(* handleRemoveManualCheck are applied to saved sets in each state a set    *)
(* can be in, whether or not a button leads there                           *)

\* A plain set of variant A as handleSaveGames makes it, and after
\* handleManualCheck / handleCheckResults
PlainSetsA(id) ==
    LET fresh(games) == [id |-> id, gameType |-> "lotofacil", dateSaved |-> id, targetContest |-> 2,
                         generatedGames |-> games, conference |-> NoConference]
    IN  UNION {
          {fresh(games)}
          \cup {performConference(fresh(games), numbersAsNumbers(manualNumbers), TRUE) :
                  manualNumbers \in {m \in ManualInputs : manualSubmitAccepts(m)}}
          \cup {performConference(fresh(games), MapNumber(DrawOf(2)), FALSE)}
          : games \in GeneratedOptions}

\* A teimosinha set of variant A as handleSaveTeimosinha makes it
TeimosinhaSetA(id) ==
    [id |-> id, type |-> "teimosinha", gameType |-> "lotofacil", dateSaved |-> id, startContest |-> 2,
     numberOfContests |-> 1, theGame |-> Game1, conferenceResults |-> <<<<id, 1>>>>]

\* A plain set of variant B as onSaveGames makes it, and after
\* handleSaveManualCheck / handleRemoveManualCheck / fetchOfficialResult
PlainSetsB(id) ==
    LET fresh(games) == newSavedGame(id, games, FALSE, 0)
        one(g) == <<g>>
    IN  UNION {
          {[fresh(games) EXCEPT !.targetContest = 2]}
          \cup {saveManualCheck(one([fresh(games) EXCEPT !.targetContest = 2]), id,
                                manualNumbersB(manualNumbers))[1] :
                  manualNumbers \in {m \in ManualInputs : saveManualCheckAccepts(m)}}
          \cup {removeManualCheck(one([fresh(games) EXCEPT !.targetContest = 2]), id)[1]}
          \cup {officialResult(one([fresh(games) EXCEPT !.targetContest = 2]), id,
                               DrawOf(2))[1]}
          : games \in GeneratedOptionsB}

\* A teimosinha set of variant B as onSaveGames makes it
TeimosinhaSetB(id) ==
    [newSavedGame(id, <<[numbers |-> Game1]>>, TRUE, 1) EXCEPT !.targetContest = 2]

InitUndo ==
    /\ app \in {"A", "B"}
    /\ drawn = <<DrawOf(1), DrawOf(2)>>
    /\ view = "home"
    /\ currentDetailId = 0
    /\ isLoading = FALSE
    /\ fetchedResults = <<>>
    /\ generatedGames = <<>>
    /\ isRegularSetSaved = FALSE
    /\ showManualInputs = FALSE
    /\ currentPage = "home"
    /\ viewingGameId = 0
    /\ targetContest = 0
    /\ generatedGamesB = <<>>
    /\ savedAsGame = FALSE
    /\ savedAsTeimosinha = FALSE
    /\ manualCheckActive = FALSE
    /\ passes = EmptyBag
    /\ last = NoOp
    /\ \E n \in 0..MaxSets :
        /\ uuid = n
        /\ IF app = "A"
           THEN /\ savedGames = <<>>
                /\ \E h \in [1..n -> UNION {PlainSetsA(id) \cup {TeimosinhaSetA(id)} : id \in 1..n}] :
                    /\ \A i \in 1..n : h[i].id = i
                    /\ history = h
                    /\ objects = [ref \in {h[i].conferenceResults[1] : i \in {j \in 1..n : hasType(h[j])}} |->
                                    [contest |-> 2, status |-> "pending"]]
           ELSE /\ history = <<>>
                /\ objects = <<>>
                /\ \E sg \in [1..n -> UNION {PlainSetsB(id) \cup {TeimosinhaSetB(id)} : id \in 1..n}] :
                    /\ \A i \in 1..n : sg[i].id = i
                    /\ savedGames = sg
    /\ lotteryAppHistory = JSONstringify(history, objects)
    /\ loterIA_savedGames = JSONstringify(savedGames, <<>>)

\* handleUndoManualCheck(id) (lines 849-857), for an id of the history or one
\* that no set has; updateHistory is reached only past the early return
UndoManualCheckCall ==
    /\ app = "A"
    /\ \E id \in 0..MaxSets :
        /\ history' = undoManualCheck(history, id)
        /\ lotteryAppHistory' = (IF undoManualCheck(history, id) # history
                                 THEN JSONstringify(undoManualCheck(history, id), objects)
                                 ELSE lotteryAppHistory)
        /\ last' = [op |-> "undo", id |-> id, before |-> find(history, id),
                    wrote |-> (undoManualCheck(history, id) # history)]
    /\ UNCHANGED <<varsNotA, view, currentDetailId, isLoading, showManualInputs, restA, passes>>

\* handleRemoveManualCheck (lines 1632-1646) of a DetailPage showing the set id
RemoveManualCheckCall ==
    /\ app = "B"
    /\ \E i \in 1..Len(savedGames) :
        /\ savedGames' = removeManualCheck(savedGames, savedGames[i].id)
        /\ persistSavedGames(removeManualCheck(savedGames, savedGames[i].id))
        /\ last' = [op |-> "undo", id |-> savedGames[i].id, before |-> savedGames[i],
                    wrote |-> TRUE]
    /\ UNCHANGED <<varsNotB, currentPage, viewingGameId, manualCheckActive, restB, passes>>

NextUndo == UndoManualCheckCall \/ RemoveManualCheckCall

SpecUndo == InitUndo /\ [][NextUndo]_vars

----------------------------------------------------------------------------
(* The saved sets of either variant, read as the specification reads them   *)

Items == IF app = "A" THEN history ELSE savedGames

ItemOf(id) == IF app = "A" THEN find(history, id) ELSE findB(savedGames, id)

\* A plain set: no 'type' (variant A), isTeimosinha false (variant B)
IsPlain(item) ==
    /\ item # NoItem
    /\ IF app = "A" THEN ~hasType(item) ELSE ~item.isTeimosinha

IsTeimosinhaSet(item) == item # NoItem /\ ~IsPlain(item)

\* The provenance of a plain set's record: conference.isManual (variant A,
\* lines 385-386); officialResult || manualCheck (variant B, line 1512)
Provenance(item) ==
    IF app = "A"
    THEN IF ~item.conference.present THEN "none"
         ELSE IF item.conference.isManual THEN "manual" ELSE "official"
    ELSE IF Truthy(item.officialResult) THEN "official"
         ELSE IF Truthy(item.manualCheck) THEN "manual" ELSE "none"

\* The winning numbers of the record (line 434; line 1512)
WinningNumbersOf(item) ==
    IF app = "A" THEN item.conference.winningNumbers ELSE resultToUse(item)

\* The tier summary shown for the record: stored (variant A, line 451),
\* computed by HitsDistributionSummary on render (variant B)
SummaryOf(item) ==
    IF app = "A" THEN item.conference.summary
    ELSE hitsByTier(item.games, resultToUse(item), Len(item.games))

\* The combinations of a plain set
GamesOf(item) ==
    IF app = "A" THEN item.generatedGames
    ELSE [i \in 1..Len(item.games) |-> item.games[i].numbers]

\* A set of variant B with an absent optional field read as null: every use
\* of manualCheck and officialResult in the code tests them for truthiness
SavedSetOf(item) ==
    IF app = "A" \/ item = NoItem THEN item
    ELSE [item EXCEPT !.manualCheck = IF Truthy(@) THEN @ ELSE Null,
                      !.officialResult = IF Truthy(@) THEN @ ELSE Null]

\* The contests a teimosinha set tracks
ContestsOf(item) ==
    IF app = "A"
    THEN item.startContest..(item.startContest + item.numberOfContests - 1)
    ELSE item.targetContest..(item.targetContest + item.teimosinhaContests - 1)

\* The checked per-contest records of the teimosinha set id, by contest: the
\* record objects with status 'checked' (variant A), the entries of results
\* (variant B).  Empty for any other id.
CheckedRecords(id) ==
    IF ~IsTeimosinhaSet(ItemOf(id)) THEN <<>>
    ELSE IF app = "A"
    THEN LET refs == {ItemOf(id).conferenceResults[i] : i \in 1..Len(ItemOf(id).conferenceResults)}
             checked == {r \in refs : objects[r].status = "checked"}
             at(c) == CHOOSE r \in checked : objects[r].contest = c
         IN  [c \in {objects[r].contest : r \in checked} |->
                [winningNumbers |-> objects[at(c)].winningNumbers,
                 hits |-> objects[at(c)].hits]]
    ELSE [c \in DOMAIN ItemOf(id).results |->
            [winningNumbers |-> ItemOf(id).results[c].drawnNumbers,
             hits |-> ItemOf(id).results[c].hits]]

ToSet(seq) == {seq[i] : i \in 1..Len(seq)}

\* The tier summary of the specification: for each prize tier met by some
\* combination, the number of combinations whose intersection with W has
\* that size
TierSummary(games, W) ==
    LET hits(i) == Cardinality(ToSet(games[i]) \cap ToSet(W))
    IN  [t \in {hits(i) : i \in 1..Len(games)} \cap ToSet(GAME_CONFIG.prizeTiers) |->
            Cardinality({i \in 1..Len(games) : hits(i) = t})]

----------------------------------------------------------------------------
(* Claims *)

\* C1: a manual conference on a plain set that carries an official record
\* fails and leaves the stored set unchanged: the record stays official with
\* the same winning numbers.
C1_ManualOnOfficialIsRefused ==
    (last.op = "manualCheck" /\ IsPlain(last.before)
        /\ Provenance(last.before) = "official")
    => ItemOf(last.id) = last.before

\* C2: OfficiallyChecked is terminal: a plain set of the history that carries
\* an official record carries an official record after every step, as long as
\* it is in the history.
C2_OfficiallyCheckedIsTerminal ==
    [][\A id \in 1..uuid :
        (IsPlain(ItemOf(id)) /\ Provenance(ItemOf(id)) = "official"
            /\ ItemOf(id)' # NoItem)
        => Provenance(ItemOf(id))' = "official"]_vars

\* C3: an official conference with winning numbers W over a plain set that
\* carries a manual record succeeds: the record is official, its winning
\* numbers are exactly those of W, its summary is the summary of W, and
\* nothing of the manual record is left.
C3_OfficialReplacesManual ==
    (last.op = "officialCheck" /\ IsPlain(last.before)
        /\ Provenance(last.before) = "manual")
    => /\ IsPlain(ItemOf(last.id))
       /\ Provenance(ItemOf(last.id)) = "official"
       /\ sortNumbers(WinningNumbersOf(ItemOf(last.id))) = sortNumbers(last.numbers)
       /\ SummaryOf(ItemOf(last.id)) = TierSummary(GamesOf(last.before), last.numbers)
       /\ IF app = "A"
          THEN ItemOf(last.id).conference =
                  [present |-> TRUE, winningNumbers |-> last.numbers,
                   summary |-> TierSummary(GamesOf(last.before), last.numbers),
                   isManual |-> FALSE]
          ELSE ~Truthy(ItemOf(last.id).manualCheck)
       /\ GamesOf(ItemOf(last.id)) = GamesOf(last.before)

\* C3 witness: an official result has just replaced a manual record made with
\* other numbers
C3_Witness ==
    /\ last.op = "officialCheck" /\ IsPlain(last.before)
    /\ Provenance(last.before) = "manual"
    /\ ToSet(WinningNumbersOf(last.before)) # ToSet(last.numbers)
    /\ SummaryOf(last.before) # TierSummary(GamesOf(last.before), last.numbers)

\* C4: undoing the manual conference leaves the set identical when it has no
\* record or an official one (and when there is no such plain set), and
\* removes the record, leaving the rest of the set, exactly when the record
\* is manual.
C4_UndoRemovesOnlyManual ==
    (last.op = "undo")
    => IF IsPlain(last.before) /\ Provenance(last.before) = "manual"
       THEN /\ Provenance(ItemOf(last.id)) = "none"
            /\ SavedSetOf(ItemOf(last.id)) =
                 IF app = "A" THEN [last.before EXCEPT !.conference = NoConference]
                 ELSE [SavedSetOf(last.before) EXCEPT !.manualCheck = Null]
       ELSE SavedSetOf(ItemOf(last.id)) = SavedSetOf(last.before)

\* C4 witness: the undo has been applied to a set with an official record
C4_Witness ==
    /\ last.op = "undo" /\ IsPlain(last.before)
    /\ Provenance(last.before) = "official"
    /\ \E i \in 1..Len(Items) : IsPlain(Items[i]) /\ Provenance(Items[i]) = "none"

\* C5: teimosinha advancement is gap-free: in every state the checked records
\* of a teimosinha set are a prefix of its contests in ascending order.
C5_CheckedRecordsFormAPrefix ==
    \A id \in 1..uuid :
        IsTeimosinhaSet(ItemOf(id)) =>
            \A c \in DOMAIN CheckedRecords(id) :
                \A d \in ContestsOf(ItemOf(id)) : d < c => d \in DOMAIN CheckedRecords(id)

\* C6: after one advancement pass the checked records are those checked
\* before the pass plus the maximal run of consecutive contests, from the
\* first pending one, whose lookup returned a result.
C6_PassChecksTheAvailableRun ==
    LET item == ItemOf(last.id)
        before == IF app = "A"
                  THEN {item.startContest + i - 1 : i \in last.checkedBefore}
                  ELSE last.checkedBefore
        answered == IF app = "A"
                    THEN {item.startContest + i - 1 : i \in last.ok}
                    ELSE last.answered
        pending == ContestsOf(item) \ before
        run == {c \in pending : \A d \in pending : d <= c => d \in answered}
    IN  (/\ \/ last.op = "teimosinhaLookup" /\ last.done
            \/ last.op = "teimosinhaPass"
         /\ IsTeimosinhaSet(item))
        => DOMAIN CheckedRecords(last.id) = before \cup run

\* C7: a per-contest record of a teimosinha set that is checked stays checked,
\* with the same winning numbers and hit count, after every step, as long as
\* the set is in the history.
C7_CheckedRecordsStayChecked ==
    [][\A id \in 1..uuid :
        (ItemOf(id)' # NoItem) =>
            \A c \in DOMAIN CheckedRecords(id) :
                /\ c \in DOMAIN CheckedRecords(id)'
                /\ CheckedRecords(id)'[c] = CheckedRecords(id)[c]]_vars

\* C8: advancing a teimosinha set whose records are all checked starts no
\* lookup and changes nothing: neither the set, nor the history, nor a record.
C8_AdvanceOnFullyCheckedDoesNothing ==
    [][(/\ last'.op \in {"checkTeimosinha", "view"}
        /\ IsTeimosinhaSet(last'.before)
        /\ DOMAIN CheckedRecords(last'.id) = ContestsOf(last'.before))
       => /\ ~last'.lookup /\ ~last'.wrote
          /\ Items' = Items
          /\ objects' = objects
          /\ passes' = passes]_vars

\* C8 witness: the advancement has been asked for a set of two contests, both
\* checked
C8_Witness ==
    /\ last.op \in {"checkTeimosinha", "view"}
    /\ IsTeimosinhaSet(last.before)
    /\ DOMAIN CheckedRecords(last.id) = ContestsOf(last.before)
    /\ Cardinality(ContestsOf(last.before)) = MaxTeimosinha

\* the sequences with the elements of seq in every order
Orders(seq) ==
    {[i \in 1..Len(seq) |-> seq[p[i]]] : p \in Permutations(1..Len(seq))}

\* C9: for a combination and winning numbers without repeated numbers, the
\* hits are the size of the intersection, whatever the order of either input.
C9_HitsAreTheIntersection ==
    (last.op = "calculateHits" /\ ~hasDuplicates(last.game)
        /\ ~hasDuplicates(last.winningNumbers))
    => /\ last.hits = Cardinality(ToSet(last.game) \cap ToSet(last.winningNumbers))
       /\ \A game \in Orders(last.game), winningNumbers \in Orders(last.winningNumbers) :
            last.hits = IF app = "A" THEN calculateHits(game, winningNumbers)
                        ELSE calculateHitsDetail(game, winningNumbers).v

\* C9 witness: two hits counted, none of them at the same position in the
\* combination and in the draw
C9_Witness ==
    /\ last.op = "calculateHits"
    /\ ~hasDuplicates(last.game) /\ ~hasDuplicates(last.winningNumbers)
    /\ last.hits = 2
    /\ \A i \in 1..Len(last.game) : last.game[i] # last.winningNumbers[i]

\* C10: with a number repeated in the winning numbers or in the combination,
\* each distinct matched number counts once: the hits are the cardinality of
\* the set intersection.
C10_RepeatedNumbersCountOnce ==
    (last.op = "calculateHits")
    => last.hits = Cardinality(ToSet(last.game) \cap ToSet(last.winningNumbers))

----------------------------------------------------------------------------
(* The tier summary on its own: performConference (variant A) and           *)
(* HitsDistributionSummary (variant B) applied to the combinations of a set *)
(* and a draw                                                                *)

\* the combinations: numbersPerGame distinct numbers of the pool, ascending
\* (handleGenerateGames sorts them)
Combinations ==
    {c \in NumberSeqs(GAME_CONFIG.numbersPerGame) : \A i \in 1..(Len(c) - 1) : c[i] < c[i + 1]}

\* the draws: numbersPerGame distinct numbers of the pool, in draw order
Draws == {w \in NumberSeqs(GAME_CONFIG.numbersPerGame) : ~hasDuplicates(w)}

\* The combinations of the set and the draw
InitTiers ==
    /\ InitApp
    /\ \E n \in 1..MaxGames :
        \E games \in [1..n -> Combinations], winningNumbers \in Draws :
            last = [op |-> "tiersInput", id |-> 0, before |-> NoItem, games |-> games,
                    winningNumbers |-> winningNumbers]

\* performConference (lines 771-780) of a set with these combinations: its summary
SummarizeTiers ==
    /\ app = "A" /\ last.op = "tiersInput"
    /\ LET gameSet == [id |-> 1, gameType |-> "lotofacil", dateSaved |-> 1, targetContest |-> 2,
                       generatedGames |-> last.games, conference |-> NoConference]
       IN  last' = [op |-> "summarizeTiers", id |-> 0, before |-> NoItem,
                    games |-> last.games, winningNumbers |-> last.winningNumbers,
                    hits |-> [i \in 1..Len(last.games) |->
                                calculateHits(last.games[i], last.winningNumbers)],
                    summary |-> performConference(gameSet, last.winningNumbers,
                                                  FALSE).conference.summary]
    /\ UNCHANGED <<varsWorld, varsAonly, varsBonly, passes, uuid>>

\* HitsDistributionSummary (lines 1475-1485) of a set with these combinations
HitsDistribution ==
    /\ app = "B" /\ last.op = "tiersInput"
    /\ LET games == [i \in 1..Len(last.games) |-> [numbers |-> last.games[i]]]
       IN  last' = [op |-> "summarizeTiers", id |-> 0, before |-> NoItem,
                    games |-> last.games, winningNumbers |-> last.winningNumbers,
                    hits |-> [i \in 1..Len(last.games) |->
                                hitsOf(last.games[i], last.winningNumbers)],
                    summary |-> hitsByTier(games, last.winningNumbers, Len(games))]
    /\ UNCHANGED <<varsWorld, varsAonly, varsBonly, passes, uuid>>

NextTiers == SummarizeTiers \/ HitsDistribution

SpecTiers == InitTiers /\ [][NextTiers]_vars

RECURSIVE SumOver(_, _)
SumOver(f, keys) ==
    IF keys = {} THEN 0
    ELSE LET k == CHOOSE x \in keys : TRUE IN f[k] + SumOver(f, keys \ {k})

\* C11: the keys of the tier summary are exactly the prize tiers that some
\* combination's hit count equals, each mapped to the number of such
\* combinations; a hit count that is no tier adds no entry, no key maps to 0
\* and the counts sum to at most the number of combinations.
C11_SummaryKeysAreTheTiersMet ==
    (last.op = "summarizeTiers")
    => /\ DOMAIN last.summary =
            {t \in ToSet(GAME_CONFIG.prizeTiers) : \E i \in 1..Len(last.games) : last.hits[i] = t}
       /\ \A t \in DOMAIN last.summary :
            /\ last.summary[t] = Cardinality({i \in 1..Len(last.games) : last.hits[i] = t})
            /\ last.summary[t] > 0
       /\ SumOver(last.summary, DOMAIN last.summary) <= Len(last.games)

\* C11 witness: two combinations summarized, one meeting a tier and one whose
\* hit count is no tier
C11_Witness ==
    /\ last.op = "summarizeTiers"
    /\ Len(last.games) = 2
    /\ \E i, j \in 1..2 :
        /\ last.hits[i] \in ToSet(GAME_CONFIG.prizeTiers)
        /\ last.hits[j] \notin ToSet(GAME_CONFIG.prizeTiers)
    /\ SumOver(last.summary, DOMAIN last.summary) = 1

----------------------------------------------------------------------------
(* The manual form on its own: the detail page of a plain set with the form *)
(* open, and every entry that can be typed in its numbersPerGame fields     *)

\* what a field can hold (handleManualInputChange keeps up to two digits)
FieldTexts == {"", "00"} \cup ToSet(DezenaText)

AllManualInputs == [1..GAME_CONFIG.numbersPerGame -> FieldTexts]

\* Variant A: HistoryDetailPage of set 1 with showManualInputs, the set
\* without a record or, the automatic check having answered since the form
\* was opened, with an official one.  Variant B: DetailPage of set 1 with
\* manualCheckActive, the set without a record or with a manual one.
InitForm ==
    /\ app \in {"A", "B"}
    /\ drawn = <<DrawOf(1), DrawOf(2)>>
    /\ isLoading = FALSE
    /\ fetchedResults = <<>>
    /\ generatedGames = <<>>
    /\ isRegularSetSaved = FALSE
    /\ objects = <<>>
    /\ targetContest = 0
    /\ generatedGamesB = <<>>
    /\ savedAsGame = FALSE
    /\ savedAsTeimosinha = FALSE
    /\ passes = EmptyBag
    /\ uuid = 1
    /\ last = NoOp
    /\ IF app = "A"
       THEN /\ InitB
            /\ view = "historyDetail"
            /\ currentDetailId = 1
            /\ showManualInputs = TRUE
            /\ \E gameSet \in {s \in PlainSetsA(1) : ~isManuallyConferenced(s)} :
                history = <<gameSet>>
       ELSE /\ view = "home"
            /\ history = <<>>
            /\ currentDetailId = 0
            /\ showManualInputs = FALSE
            /\ currentPage = "details"
            /\ viewingGameId = 1
            /\ manualCheckActive = TRUE
            /\ \E game \in {s \in PlainSetsB(1) : ~Truthy(s.officialResult)} :
                savedGames = <<game>>
    /\ lotteryAppHistory = JSONstringify(history, objects)
    /\ loterIA_savedGames = JSONstringify(savedGames, <<>>)

\* handleManualSubmit with any entry
ManualSubmitAny == ManualSubmit(AllManualInputs)

\* handleSaveManualCheck with any entry
SaveManualCheckAny == SaveManualCheck(AllManualInputs)

NextForm == ManualSubmitAny \/ SaveManualCheckAny

SpecForm == InitForm /\ [][NextForm]_vars

\* The numbers an entry supplies: the fields that are not empty, as numbers
SuppliedNumbers(input) ==
    LET filled == SelectSeq(input, LAMBDA text : text # "")
    IN  [i \in 1..Len(filled) |-> Number(filled[i])]

\* exactly arity distinct values in [1, totalNumbers]
ValidWinningNumbers(numbers) ==
    /\ Len(numbers) = GAME_CONFIG.numbersPerGame
    /\ Cardinality(ToSet(numbers)) = GAME_CONFIG.numbersPerGame
    /\ ToSet(numbers) \subseteq 1..GAME_CONFIG.totalNumbers

\* C12: a manual conference whose winning numbers are not exactly arity
\* distinct values in [1, totalNumbers] is rejected and the set in the
\* history is unchanged.
C12_InvalidManualNumbersAreRejected ==
    (last.op \in {"manualCheck", "manualRejected"}
        /\ ~ValidWinningNumbers(SuppliedNumbers(last.input)))
    => /\ last.op = "manualRejected"
       /\ ~last.wrote
       /\ ItemOf(last.id) = last.before
       /\ Items = <<last.before>>

\* C12 witness: an entry with a repeated number, every number in range, has
\* been submitted
C12_Witness ==
    /\ last.op \in {"manualCheck", "manualRejected"}
    /\ Len(SuppliedNumbers(last.input)) = GAME_CONFIG.numbersPerGame
    /\ ToSet(SuppliedNumbers(last.input)) \subseteq 1..GAME_CONFIG.totalNumbers
    /\ Cardinality(ToSet(SuppliedNumbers(last.input))) < GAME_CONFIG.numbersPerGame

----------------------------------------------------------------------------
(* The conference engine on its own: the detail page of a plain set whose   *)
(* automatic lookup is in flight; the lookup is answered with whatever the  *)
(* service sends, and handleManualCheck is called with whatever numbers     *)

\* data.dezenas of an ok answer: the draw, and lists that are no draw (too
\* few, too many, a repeated number, a number out of range)
LookupAnswers ==
    {DrawOf(2), <<"01", "02">>, <<"01", "02", "03", "04">>, <<"01", "01", "02">>,
     <<"01", "02", "06">>}

\* numbers handed to handleManualCheck(id, numbers)
DirectNumbers ==
    {<<2, 1, 4>>, <<1, 2>>, <<1, 2, 3, 4>>, <<1, 1, 2>>, <<1, 2, 6>>, <<0, 1, 2>>}

InitEngine ==
    /\ app \in {"A", "B"}
    /\ drawn = <<DrawOf(1), DrawOf(2)>>
    /\ fetchedResults = <<>>
    /\ generatedGames = <<>>
    /\ isRegularSetSaved = FALSE
    /\ objects = <<>>
    /\ targetContest = 0
    /\ generatedGamesB = <<>>
    /\ savedAsGame = FALSE
    /\ savedAsTeimosinha = FALSE
    /\ uuid = 1
    /\ last = NoOp
    /\ IF app = "A"
       THEN /\ currentPage = "home"
            /\ savedGames = <<>>
            /\ viewingGameId = 0
            /\ manualCheckActive = FALSE
            /\ view = "historyDetail"
            /\ currentDetailId = 1
            /\ showManualInputs = FALSE
            /\ isLoading = TRUE
            /\ \E gameSet \in {s \in PlainSetsA(1) : ~isApiConferenced(s)} :
                /\ history = <<gameSet>>
                /\ passes = AutoCheck(<<gameSet>>, "historyDetail", 1)
       ELSE /\ view = "home"
            /\ history = <<>>
            /\ currentDetailId = 0
            /\ showManualInputs = FALSE
            /\ isLoading = FALSE
            /\ currentPage = "details"
            /\ viewingGameId = 1
            /\ manualCheckActive = FALSE
            /\ \E game \in {s \in PlainSetsB(1) : ~Truthy(s.officialResult)} :
                /\ savedGames = <<game>>
                /\ passes = DetailEffects(game)
    /\ lotteryAppHistory = JSONstringify(history, objects)
    /\ loterIA_savedGames = JSONstringify(savedGames, <<>>)

\* handleCheckResults after its await, res.ok (lines 792-802), with the
\* body data.dezenas as it came
CheckResultsAnswer ==
    /\ app = "A"
    /\ \E pass \in BagToSet(passes), dezenas \in LookupAnswers :
        /\ pass.kind = "check"
        /\ Render(checkResultsHistory(pass, dezenas), view, currentDetailId,
                  showManualInputs, FALSE, passes (-) One(pass))
        /\ updateHistory(checkResultsHistory(pass, dezenas), objects)
        /\ last' = [op |-> "officialCheck", id |-> pass.id,
                    before |-> find(history, pass.id),
                    numbers |-> MapNumber(dezenas),
                    wrote |-> (checkResultsHistory(pass, dezenas) # history)]
    /\ UNCHANGED <<varsNotA, restA>>

\* fetchOfficialResult after its await, data.dezenas present (lines 1521-1524)
OfficialResultAnswer ==
    /\ app = "B"
    /\ \E pass \in BagToSet(passes), dezenas \in LookupAnswers :
        /\ pass.kind = "official"
        /\ RenderB(officialResult(savedGames, pass.id, dezenas),
                   currentPage, viewingGameId, manualCheckActive,
                   passes (-) One(pass), FALSE, pass.id)
        /\ last' = [op |-> "officialCheck", id |-> pass.id,
                    before |-> findB(savedGames, pass.id),
                    numbers |-> MapNumber(dezenas),
                    wrote |-> (officialResult(savedGames, pass.id, dezenas) # savedGames)]
    /\ UNCHANGED <<varsNotB, restB>>

\* handleManualCheck(id, numbers) (lines 840-847) called with any numbers
ManualCheckCall ==
    /\ app = "A"
    /\ \E numbers \in DirectNumbers :
        /\ Render(manualCheck(history, currentDetailId, numbers), view, currentDetailId,
                  showManualInputs, isLoading, passes)
        /\ updateHistory(manualCheck(history, currentDetailId, numbers), objects)
        /\ last' = [op |-> "manualCheck", id |-> currentDetailId,
                    before |-> find(history, currentDetailId),
                    numbers |-> numbers,
                    wrote |-> (manualCheck(history, currentDetailId, numbers) # history)]
    /\ UNCHANGED <<varsNotA, restA>>

NextEngine == CheckResultsAnswer \/ OfficialResultAnswer \/ ManualCheckCall

SpecEngine == InitEngine /\ [][NextEngine]_vars

\* C13: for every provenance, winning numbers that are not exactly arity
\* distinct values in [1, totalNumbers] are refused by the engine itself:
\* nothing is recorded, the set and the history stay as they were.
C13_EngineRefusesInvalidNumbers ==
    (last.op \in {"officialCheck", "manualCheck"} /\ ~ValidWinningNumbers(last.numbers))
    => /\ ~last.wrote
       /\ ItemOf(last.id) = last.before

----------------------------------------------------------------------------

\* The provenances of the records a plain set holds: its conference, if any
\* (variant A); its manualCheck and its officialResult, each if set (variant B)
RecordsOf(item) ==
    IF app = "A"
    THEN IF item.conference.present
         THEN {IF item.conference.isManual THEN "manual" ELSE "official"}
         ELSE {}
    ELSE {"manual" : x \in {1} \cap (IF Truthy(item.manualCheck) THEN {1} ELSE {})}
         \cup {"official" : x \in {1} \cap (IF Truthy(item.officialResult) THEN {1} ELSE {})}

\* C14: in every reachable state a plain set has at most one record: it never
\* holds a manual result and an official result at the same time.
C14_AtMostOneRecord ==
    \A i \in 1..Len(Items) :
        IsPlain(Items[i]) => Cardinality(RecordsOf(Items[i])) <= 1

\* C14 witness: in the variant that keeps the two results in two fields, a
\* set that held a manual result has received the official one
C14_Witness ==
    /\ app = "B" /\ last.op = "officialCheck"
    /\ IsPlain(last.before) /\ Truthy(last.before.manualCheck)
    /\ RecordsOf(ItemOf(last.id)) = {"official"}

----------------------------------------------------------------------------

\* C15: a plain set is selected for the automatic official check exactly when
\* it has no record or a manual one, never when its record is official; a
\* teimosinha set is taken for its check whatever records it already has (on
\* view in variant B, at "Atualizar Conferência" in variant A), a lookup being
\* issued exactly when one of its contests is not checked yet.
C15_AutoCheckEligibility ==
    /\ (last.op = "view" /\ IsPlain(last.before))
        => (last.lookup <=> Provenance(last.before) \in {"none", "manual"})
    /\ (app = "B" /\ last.op = "view" /\ IsTeimosinhaSet(last.before))
        => (last.lookup <=> ContestsOf(last.before) # DOMAIN last.before.results)
    /\ (app = "A" /\ last.op = "checkTeimosinha")
        => (last.lookup <=> last.checkedBefore # 1..Len(last.before.conferenceResults))

\* C15 witness: a plain set that carries a manual record has been opened and
\* its automatic check started
C15_Witness ==
    /\ last.op = "view" /\ IsPlain(last.before)
    /\ Provenance(last.before) = "manual"
    /\ last.lookup

----------------------------------------------------------------------------

\* C16: a lookup that gives no result, for whatever reason, is "not
\* available": the automatic check of a plain set leaves the set and the whole
\* history as they were, and a teimosinha pass stops there, no record of the
\* failed contest or of a later one becoming checked by it.
C16_FailedLookupIsNotAvailable ==
    [][\A id \in 1..uuid : (last'.id = id) =>
        /\ last'.op = "checkUnavailable"
            => (Items' = Items /\ objects' = objects /\ ~last'.wrote)
        /\ (app = "A" /\ last'.op = "teimosinhaLookup" /\ last'.failed # 0)
            => /\ last'.done
               /\ objects' = objects
               /\ \A pass \in BagToSet(passes') :
                    pass.kind = "teimosinha" => pass \in BagToSet(passes)
        /\ (app = "B" /\ last'.op = "teimosinhaPass")
            => \A c \in last'.asked \ last'.answered :
                 \A d \in DOMAIN CheckedRecords(id)' :
                    d >= c => d \in DOMAIN CheckedRecords(id)]_vars

----------------------------------------------------------------------------

\* C17: no conference operation changes a saved set in place: as long as no
\* new history has been committed, every set reachable from the current
\* history, the per-contest records of a teimosinha set included, is as it was.
C17_NoMutationBeforeCommit ==
    [][Items' = Items
        => \A id \in 1..uuid : CheckedRecords(id)' = CheckedRecords(id)]_vars

----------------------------------------------------------------------------

\* C18: a teimosinha pass applies the records it checked in one batch: it
\* writes the history once, at its end, if it checked a record and never
\* otherwise, and between its lookups none of the records it has checked so
\* far can be seen in the set.
C18_PassAppliesOneBatch ==
    [][\A id \in 1..uuid : (last'.id = id) =>
        /\ (app = "A" /\ last'.op = "teimosinhaLookup")
            => /\ last'.wrote <=> (last'.done /\ last'.ok # {})
               /\ ~last'.wrote => history' = history
               /\ ~last'.done => CheckedRecords(id)' = CheckedRecords(id)
        /\ (app = "B" /\ last'.op = "teimosinhaPass")
            => /\ last'.wrote <=> (last'.answered # {})
               /\ ~last'.wrote => savedGames' = savedGames]_vars

----------------------------------------------------------------------------

\* The contests of the teimosinha set id whose lookup is in flight, as a bag:
\* the record a pass of handleCheckTeimosinha is waiting for (variant A, line
\* 816), every contest of a pass of updateResults (variant B, lines 1549-1552)
LookupsInFlight(id) ==
    LET of(pass) ==
            IF app = "A" THEN {objects[pass.gameSet.conferenceResults[pass.at]].contest}
            ELSE pass.contests
        mine == {pass \in BagToSet(passes) : pass.kind = "teimosinha" /\ pass.id = id}
        contests == UNION {of(pass) : pass \in mine}
    IN  [c \in contests |->
            SumOver([pass \in {p \in mine : c \in of(p)} |-> CopiesIn(pass, passes)],
                    {p \in mine : c \in of(p)})]

\* C19: the lookups for one teimosinha set are issued one after the other: at
\* most one is in flight at any moment, and the one in flight is for a contest
\* whose predecessors have all returned a result.
C19_LookupsAreSequential ==
    \A id \in 1..uuid :
        /\ BagCardinality(LookupsInFlight(id)) <= 1
        /\ IsTeimosinhaSet(ItemOf(id)) =>
            \A c \in DOMAIN LookupsInFlight(id) :
                \A d \in ContestsOf(ItemOf(id)) :
                    d < c => d \in DOMAIN CheckedRecords(id)

----------------------------------------------------------------------------

\* The set id has been deleted: onDelete (lines 1081-1085) is the only handler
\* that removes a set, its updates being functional; variant A has no deletion
Deleted(id) == app = "B" /\ id \in 1..uuid /\ findB(savedGames, id) = NoItem

\* C20: when a set has been deleted while a lookup for it was in flight, the
\* completion of that lookup does nothing: the set is not put back and no
\* other set is altered.
C20_LookupForADeletedSetDoesNothing ==
    [][\A id \in 1..uuid :
        (/\ last'.id = id
         /\ last'.op \in {"officialCheck", "checkUnavailable", "teimosinhaLookup",
                          "teimosinhaPass"}
         /\ Deleted(id))
        => Items' = Items]_vars

\* C20 witness: the lookup for a deleted set has answered with a result while
\* another set is in the history
C20_Witness ==
    /\ last.op \in {"officialCheck", "teimosinhaPass"} /\ last.wrote
    /\ Deleted(last.id)
    /\ Len(Items) > 0

----------------------------------------------------------------------------
(* Reconciliation applied over again: a plain set and a teimosinha set, the *)
(* lookups of a fixed set of contests giving a result and the others none;  *)
(* the official check and the teimosinha pass are each run to their end,    *)
(* then run again                                                           *)

InitTwice ==
    /\ app \in {"A", "B"}
    /\ drawn = <<DrawOf(1), DrawOf(2), DrawOf(3)>>
    /\ view = "history"
    /\ currentDetailId = 0
    /\ isLoading = FALSE
    /\ fetchedResults = <<>>
    /\ generatedGames = <<>>
    /\ isRegularSetSaved = FALSE
    /\ showManualInputs = FALSE
    /\ currentPage = "history"
    /\ viewingGameId = 0
    /\ targetContest = 0
    /\ generatedGamesB = <<>>
    /\ savedAsGame = FALSE
    /\ savedAsTeimosinha = FALSE
    /\ manualCheckActive = FALSE
    /\ passes = EmptyBag
    /\ uuid = 2
    /\ \E answers \in SUBSET (2..3) :
        last = [op |-> "answers", id |-> 0, before |-> NoItem, answers |-> answers,
                official |-> 0, teimosinha |-> 0, changed |-> FALSE]
    /\ IF app = "A"
       THEN /\ savedGames = <<>>
            /\ \E gameSet \in PlainSetsA(1) :
                history = <<gameSet,
                            [id |-> 2, type |-> "teimosinha", gameType |-> "lotofacil", dateSaved |-> 2,
                             startContest |-> 2, numberOfContests |-> MaxTeimosinha,
                             theGame |-> Game1,
                             conferenceResults |-> [i \in 1..MaxTeimosinha |-> <<2, i>>]]>>
            /\ objects = [ref \in {<<2, i>> : i \in 1..MaxTeimosinha} |->
                            [contest |-> 2 + ref[2] - 1, status |-> "pending"]]
       ELSE /\ history = <<>>
            /\ objects = <<>>
            /\ \E game \in PlainSetsB(1) :
                savedGames = <<game,
                               [newSavedGame(2, <<[numbers |-> Game1]>>, TRUE, MaxTeimosinha)
                                    EXCEPT !.targetContest = 2]>>
    /\ lotteryAppHistory = JSONstringify(history, objects)
    /\ loterIA_savedGames = JSONstringify(savedGames, <<>>)

\* handleCheckResults(1) from its call to its end (lines 782-804)
CheckResultsAgain ==
    /\ app = "A" /\ last.official < MaxApplications
    /\ LET gameSet == find(history, 1)
           pass == [kind |-> "check", id |-> 1, gameSet |-> gameSet, history |-> history]
           h == IF gameSet.targetContest \in last.answers
                THEN checkResultsHistory(pass, drawn[gameSet.targetContest])
                ELSE history
       IN  /\ history' = h
           /\ lotteryAppHistory' = (IF gameSet.targetContest \in last.answers
                                    THEN JSONstringify(h, objects) ELSE lotteryAppHistory)
           /\ last' = [last EXCEPT !.op = "again", !.id = 1, !.before = gameSet,
                                   !.official = @ + 1, !.changed = (h # history)]
    /\ UNCHANGED <<varsNotA, view, currentDetailId, isLoading, showManualInputs, restA,
                   passes>>

\* fetchOfficialResult for set 1 from its call to its end (lines 1518-1532)
OfficialResultAgain ==
    /\ app = "B" /\ last.official < MaxApplications
    /\ LET game == findB(savedGames, 1)
           sg == IF game.targetContest \in last.answers
                 THEN officialResult(savedGames, 1, drawn[game.targetContest])
                 ELSE savedGames
       IN  /\ savedGames' = sg
           /\ persistSavedGames(sg)
           /\ last' = [last EXCEPT !.op = "again", !.id = 1, !.before = game,
                                   !.official = @ + 1, !.changed = (sg # savedGames)]
    /\ UNCHANGED <<varsNotB, currentPage, viewingGameId, manualCheckActive, restB, passes>>

\* handleCheckTeimosinha(2) from its call to its end (lines 806-838)
CheckTeimosinhaAgain ==
    /\ app = "A" /\ last.teimosinha < MaxApplications
    /\ LET gameSet == find(history, 2)
           objs == checkTeimosinhaLoop(objects, gameSet, last.answers, 1)
       IN  /\ objects' = objs
           /\ history' = IF objs # objects THEN mapReplace(history, 2, gameSet) ELSE history
           /\ lotteryAppHistory' = (IF objs # objects
                                    THEN JSONstringify(mapReplace(history, 2, gameSet), objs)
                                    ELSE lotteryAppHistory)
           /\ last' = [last EXCEPT !.op = "again", !.id = 2, !.before = gameSet,
                                   !.teimosinha = @ + 1, !.changed = (objs # objects)]
    /\ UNCHANGED <<varsNotA, view, currentDetailId, isLoading, showManualInputs,
                   fetchedResults, generatedGames, isRegularSetSaved, uuid, passes>>

\* DetailPage's teimosinha effect for set 2 from its start to its end
\* (lines 1539-1579)
TeimosinhaResultsAgain ==
    /\ app = "B" /\ last.teimosinha < MaxApplications
    /\ LET game == findB(savedGames, 2)
           answered == contestsToUpdate(game) \cap last.answers
           sg == IF answered # {}
                 THEN teimosinhaResults(savedGames, 2,
                        updatedResults(game.results, game.games[1].numbers, answered))
                 ELSE savedGames
       IN  /\ savedGames' = sg
           /\ persistSavedGames(sg)
           /\ last' = [last EXCEPT !.op = "again", !.id = 2, !.before = game,
                                   !.teimosinha = @ + 1, !.changed = (sg # savedGames)]
    /\ UNCHANGED <<varsNotB, currentPage, viewingGameId, manualCheckActive, restB, passes>>

NextTwice ==
    \/ CheckResultsAgain
    \/ OfficialResultAgain
    \/ CheckTeimosinhaAgain
    \/ TeimosinhaResultsAgain

SpecTwice == InitTwice /\ [][NextTwice]_vars

\* C21: reconciliation is idempotent: the same official result applied to a
\* plain set a second time, and a teimosinha pass run a second time against
\* the same lookup answers, leave the conference state (winning numbers,
\* provenance, summary, per-contest status and hits) as the first left it.
C21_ReconciliationIsIdempotent ==
    [][\A id \in 1..uuid :
        (/\ last'.op = "again" /\ last'.id = id
         /\ IF id = 1 THEN last'.official >= 2 ELSE last'.teimosinha >= 2)
        => /\ SavedSetOf(ItemOf(id))' = SavedSetOf(ItemOf(id))
           /\ CheckedRecords(id)' = CheckedRecords(id)
           /\ Items' = Items]_vars

\* C21 witness: the official check and the teimosinha pass have both been run
\* twice, the plain set holding the official result and the teimosinha set a
\* checked record and a pending one
C21_Witness ==
    /\ last.op = "again" /\ last.official = 2 /\ last.teimosinha = 2
    /\ Provenance(ItemOf(1)) = "official"
    /\ DOMAIN CheckedRecords(2) = {2}

----------------------------------------------------------------------------

\* C22: a manual record is never removed by the system: a plain set goes from
\* manually checked back to unchecked only by the user's undo on that set,
\* never by an automatic check, a teimosinha pass or a save.
C22_OnlyUndoRemovesAManualRecord ==
    [][\A id \in 1..uuid :
        (/\ IsPlain(ItemOf(id)) /\ IsPlain(ItemOf(id))'
         /\ Provenance(ItemOf(id)) = "manual"
         /\ Provenance(ItemOf(id))' = "none")
        => (last'.op = "undo" /\ last'.id = id)]_vars

----------------------------------------------------------------------------

\* The plain set on view on a detail page, NoItem if there is none
ViewedPlainSet ==
    IF app = "A"
    THEN IF view = "historyDetail" THEN DetailGameSet(history, currentDetailId) ELSE NoItem
    ELSE IF currentPage = "details" /\ IsPlain(findB(savedGames, viewingGameId))
         THEN findB(savedGames, viewingGameId) ELSE NoItem

\* The page shows the manual form with its submit button: "Conferir" (lines
\* 468-489), "Salvar Conferência" (lines 1704-1744)
ManualSubmitOffered ==
    IF app = "A"
    THEN view = "historyDetail" /\ showManualInputs
         /\ DetailGameSet(history, currentDetailId) # NoItem
    ELSE ManualCheckOffered /\ manualCheckActive

\* C23: whenever the set on view carries an official record the manual entry
\* is disabled: no manual submit is offered, not even through a form that was
\* opened before the official result arrived.
C23_NoManualSubmitOnOfficial ==
    (ViewedPlainSet # NoItem /\ Provenance(ViewedPlainSet) = "official")
        => ~ManualSubmitOffered

----------------------------------------------------------------------------

\* C24: every per-contest record of a teimosinha set is consistent in every
\* reachable state, in the middle of a pass and after a pass that was left
\* too: it is checked exactly when it carries winning numbers and a hit count,
\* the hit count is the number of numbers the set's combination shares with
\* those winning numbers, and a pending record carries neither.
C24_RecordsAreConsistent ==
    \A i \in 1..Len(Items) :
        IsTeimosinhaSet(Items[i]) =>
            IF app = "A"
            THEN \A k \in 1..Len(Items[i].conferenceResults) :
                    LET record == objects[Items[i].conferenceResults[k]] IN
                    /\ record.status \in {"pending", "checked"}
                    /\ record.status = "checked"
                        <=> {"winningNumbers", "hits"} \subseteq DOMAIN record
                    /\ record.status = "pending"
                        => {"winningNumbers", "hits"} \cap DOMAIN record = {}
                    /\ record.status = "checked"
                        => record.hits = Cardinality(ToSet(Items[i].theGame)
                                                     \cap ToSet(record.winningNumbers))
            ELSE \A c \in DOMAIN Items[i].results :
                    LET record == Items[i].results[c] IN
                    /\ DOMAIN record = {"drawnNumbers", "hits"}
                    /\ record.drawnNumbers # <<>>
                    /\ record.hits = Cardinality(ToSet(Items[i].games[1].numbers)
                                                 \cap ToSet(record.drawnNumbers))

\* C24 witness: a pass of handleCheckTeimosinha is between two lookups, one
\* record of its set checked and the next one pending
C24_Witness ==
    /\ app = "A"
    /\ \E pass \in BagToSet(passes) :
        /\ pass.kind = "teimosinha" /\ pass.updated
        /\ IsTeimosinhaSet(ItemOf(pass.id))
        /\ objects[pass.gameSet.conferenceResults[1]].status = "checked"
        /\ objects[pass.gameSet.conferenceResults[pass.at]].status = "pending"

----------------------------------------------------------------------------
(* The teimosinha dialog on its own: the page with one generated            *)
(* combination and the dialog open, its field holding any text that         *)
(* <input type="number"> passes to onChange; "Salvar Teimosinha" is clicked *)
(* The number of contests need not be whole, so here it is kept as its      *)
(* double: [twice |-> 5] is 2.5                                             *)

\* the texts typed in the field; the last value typed is the one saved
ModalTexts == {"", "0", "1", "2", "3", "1.5", "2.5"}

\* Number(e.target.value), doubled
NumberTwice(text) ==
    CASE text = ""    -> 0
      [] text = "0"   -> 0
      [] text = "1"   -> 2
      [] text = "2"   -> 4
      [] text = "3"   -> 6
      [] text = "1.5" -> 3
      [] text = "2.5" -> 5

\* Math.max(1, Number(e.target.value)) (lines 120 and 1814), doubled
numContestsTwice(text) ==
    IF NumberTwice(text) > 2 THEN NumberTwice(text) ELSE 2

\* The length of Array.from({ length: n }, ...) (lines 751 and 1542): n
\* truncated to a whole number
ArrayLength(twice) == twice \div 2

InitModal ==
    /\ app \in {"A", "B"}
    /\ drawn = <<DrawOf(1)>>
    /\ currentDetailId = 0
    /\ isLoading = FALSE
    /\ isRegularSetSaved = FALSE
    /\ showManualInputs = FALSE
    /\ objects = <<>>
    /\ viewingGameId = 0
    /\ savedAsGame = FALSE
    /\ savedAsTeimosinha = FALSE
    /\ manualCheckActive = FALSE
    /\ passes = EmptyBag
    /\ \E text \in ModalTexts :
        last = [op |-> "typed", id |-> 0, before |-> NoItem, text |-> text]
    /\ IF app = "A"
       THEN /\ view = "results"
            /\ fetchedResults = <<1>>
            /\ generatedGames = <<Game1>>
            /\ \E h \in {<<>>} \cup {<<gameSet>> : gameSet \in PlainSetsA(1)} :
                history = h /\ uuid = Len(h)
            /\ currentPage = "home"
            /\ savedGames = <<>>
            /\ targetContest = 0
            /\ generatedGamesB = <<>>
       ELSE /\ view = "home"
            /\ fetchedResults = <<>>
            /\ generatedGames = <<>>
            /\ history = <<>>
            /\ currentPage = "generate"
            /\ targetContest = 2
            /\ generatedGamesB = <<[numbers |-> Game1]>>
            /\ \E sg \in {<<>>} \cup {<<game>> : game \in PlainSetsB(1)} :
                savedGames = sg /\ uuid = Len(sg)
    /\ lotteryAppHistory = JSONstringify(history, objects)
    /\ loterIA_savedGames = JSONstringify(savedGames, <<>>)

\* handleSaveTeimosinha (lines 743-758) with the number of contests the
\* dialog holds
SaveTeimosinhaTyped ==
    /\ app = "A" /\ view = "results" /\ last.op = "typed"
    /\ Len(generatedGames) = 1 /\ ~isLoading
    /\ LET id == uuid + 1
           startContest == latestContest(fetchedResults) + 1
           numContests == numContestsTwice(last.text)
           newTeimosinha ==
                [id |-> id, type |-> "teimosinha", gameType |-> "lotofacil", dateSaved |-> id,
                 startContest |-> startContest,
                 numberOfContests |-> [twice |-> numContests],
                 theGame |-> generatedGames[1],
                 conferenceResults |-> [i \in 1..ArrayLength(numContests) |-> <<id, i>>]]
       IN  /\ objects' = [ref \in (DOMAIN objects)
                                  \cup {<<id, i>> : i \in 1..ArrayLength(numContests)} |->
                             IF ref \in DOMAIN objects THEN objects[ref]
                             ELSE [contest |-> startContest + ref[2] - 1, status |-> "pending"]]
           /\ Render(Append(history, newTeimosinha), view, currentDetailId, FALSE,
                     isLoading, passes)
           /\ updateHistory(Append(history, newTeimosinha), objects')
           /\ last' = [op |-> "save", id |-> id, before |-> NoItem, wrote |-> TRUE]
    /\ uuid' = uuid + 1
    /\ UNCHANGED <<varsNotA, fetchedResults, generatedGames, isRegularSetSaved>>

\* GeneratePage's handleSaveTeimosinha (lines 1336-1342) and onSaveGames
\* (lines 1063-1078) with the number of contests the dialog holds
SaveTeimosinhaTypedB ==
    /\ app = "B" /\ currentPage = "generate" /\ last.op = "typed"
    /\ Len(generatedGamesB) = 1 /\ ~savedAsTeimosinha
    /\ targetContest # 0
    /\ savedGames' = Append(savedGames,
            [newSavedGame(uuid + 1, generatedGamesB, TRUE, 1)
                EXCEPT !.teimosinhaContests = [twice |-> numContestsTwice(last.text)]])
    /\ loterIA_savedGames' = JSONstringify(savedGames', <<>>)
    /\ savedAsTeimosinha' = TRUE
    /\ uuid' = uuid + 1
    /\ last' = [op |-> "save", id |-> uuid + 1, before |-> NoItem, wrote |-> TRUE]
    /\ UNCHANGED <<varsNotB, currentPage, viewingGameId, manualCheckActive, passes,
                   targetContest, generatedGamesB, savedAsGame>>

NextModal == SaveTeimosinhaTyped \/ SaveTeimosinhaTypedB

SpecModal == InitModal /\ [][NextModal]_vars

\* The contests a teimosinha set saved through the dialog has a record for,
\* pending or checked: its record objects (variant A), the contests listed by
\* Array.from({ length: teimosinhaContests }, ...) (variant B, lines 1542, 1674)
TrackedContests(item) ==
    IF app = "A"
    THEN {objects[item.conferenceResults[i]].contest : i \in 1..Len(item.conferenceResults)}
    ELSE {item.targetContest + i - 1 : i \in 1..ArrayLength(item.teimosinhaContests.twice)}

\* contestCount, doubled
ContestCountTwice(item) ==
    IF app = "A" THEN item.numberOfContests.twice ELSE item.teimosinhaContests.twice

\* C25: a teimosinha set tracks exactly contestCount records, one for each of
\* the contests targetContest .. targetContest + contestCount - 1 and no
\* other, and contestCount is at least 1.
C25_ExactlyContestCountRecords ==
    last.op = "save" =>
        LET item == ItemOf(last.id)
            first == IF app = "A" THEN item.startContest ELSE item.targetContest
        IN  /\ ContestCountTwice(item) >= 2
            /\ 2 * Cardinality(TrackedContests(item)) = ContestCountTwice(item)
            /\ \A c \in TrackedContests(item) :
                    c >= first /\ 2 * (c - first + 1) <= ContestCountTwice(item)

----------------------------------------------------------------------------

\* The combinations of a teimosinha set: theGame (variant A), games (variant B)
TeimosinhaGames(item) ==
    IF app = "A" THEN <<item.theGame>>
    ELSE [i \in 1..Len(item.games) |-> item.games[i].numbers]

\* C26: every teimosinha set in the history holds exactly one combination: it
\* is saved only when exactly one combination is generated, and no later
\* operation adds or removes one.
C26_TeimosinhaHoldsOneCombination ==
    [][\A id \in 1..(uuid') :
        IsTeimosinhaSet(ItemOf(id))' =>
            /\ Len(TeimosinhaGames(ItemOf(id)))' = 1
            /\ IsTeimosinhaSet(ItemOf(id))
                => TeimosinhaGames(ItemOf(id))' = TeimosinhaGames(ItemOf(id))
            /\ (last'.op = "save" /\ last'.id = id)
                => IF app = "A" THEN Len(generatedGames) = 1 ELSE Len(generatedGamesB) = 1]_vars

\* C26 witness: a teimosinha set of the variant that saves the list of
\* generated combinations has been through a pass that checked a record
C26_Witness ==
    /\ app = "B" /\ last.op = "teimosinhaPass" /\ last.wrote
    /\ IsTeimosinhaSet(ItemOf(last.id))
    /\ Len(TeimosinhaGames(ItemOf(last.id))) = 1

----------------------------------------------------------------------------
(* Saving                                                                    *)

\* The per-contest record objects of the teimosinha set id that are not
\* pending (variant A); none for variant B, whose pending contests are the
\* contests without an entry in results
RecordsNotPending(id) ==
    IF app = "A" /\ IsTeimosinhaSet(ItemOf(id))
    THEN {i \in 1..Len(ItemOf(id).conferenceResults) :
            objects[ItemOf(id).conferenceResults[i]].status # "pending"}
    ELSE {}

\* C27: a step that saves a set appends it to the history and changes no set
\* already there; the new set is pending: a plain set has no conference
\* record, a teimosinha set has every per-contest record pending.
C27_SavedSetIsPending ==
    [][last'.op = "save" =>
        \A id \in 1..(uuid') : (last'.id = id) =>
            /\ ItemOf(id) = NoItem
            /\ ItemOf(id)' # NoItem
            /\ Items' = Append(Items, ItemOf(id)')
            /\ \A ref \in DOMAIN objects : objects'[ref] = objects[ref]
            /\ IsPlain(ItemOf(id))' => Provenance(ItemOf(id))' = "none"
            /\ IsTeimosinhaSet(ItemOf(id))' =>
                /\ CheckedRecords(id)' = <<>>
                /\ RecordsNotPending(id)' = {}
                /\ ContestsOf(ItemOf(id))' # {}]_vars

C27_Witness ==
    /\ last.op = "save"
    /\ Len(Items) = 2
    /\ IsTeimosinhaSet(ItemOf(last.id))
    /\ IsPlain(Items[1]) /\ Provenance(Items[1]) = "manual"

C27_WitnessPlain ==
    /\ last.op = "save"
    /\ Len(Items) = 2
    /\ IsPlain(ItemOf(last.id))
    /\ Provenance(ItemOf(last.id)) = "none"

----------------------------------------------------------------------------
(* What conference leaves alone                                              *)

\* The fields of a saved set written when it is saved and meant to stay:
\* id, gameType, mode, combinations, dateSaved and targetContest
\* (startContest for a teimosinha) in variant A; id, type, isTeimosinha,
\* games, createdAt and targetContest in variant B
SaveTimeFields(item) ==
    IF app = "A"
    THEN IF hasType(item)
         THEN [id |-> item.id, variant |-> item.gameType, mode |-> "teimosinha",
               combinations |-> <<item.theGame>>, created |-> item.dateSaved,
               targetContest |-> item.startContest]
         ELSE [id |-> item.id, variant |-> item.gameType, mode |-> "plain",
               combinations |-> item.generatedGames, created |-> item.dateSaved,
               targetContest |-> item.targetContest]
    ELSE [id |-> item.id, variant |-> item.type,
          mode |-> IF item.isTeimosinha THEN "teimosinha" ELSE "plain",
          combinations |-> item.games, created |-> item.createdAt,
          targetContest |-> item.targetContest]

\* C28: no step changes the id, variant, mode, combinations, creation date or
\* target contest of a set of the history; in particular no manual check,
\* undo, official check or teimosinha advancement does.
C28_ConferenceKeepsSaveTimeFields ==
    [][\A id \in 1..uuid :
        (ItemOf(id) # NoItem /\ ItemOf(id)' # NoItem)
            => SaveTimeFields(ItemOf(id))' = SaveTimeFields(ItemOf(id))]_vars

\* An official conference written over a set that was conferred by hand
\* before
C28_Witness ==
    /\ last.op = "officialCheck" /\ last.wrote
    /\ last.before # NoItem /\ IsPlain(last.before)
    /\ Provenance(last.before) = "manual"
    /\ ItemOf(last.id) # NoItem
    /\ Provenance(ItemOf(last.id)) = "official"
    /\ SaveTimeFields(ItemOf(last.id)) = SaveTimeFields(last.before)

----------------------------------------------------------------------------
(* Each operation applied to each set of the history, whatever its mode:    *)
(* the handlers of variant A called with any id, the DetailPage of variant  *)
(* B rendered for any set                                                    *)

\* handleManualCheck(id, numbers) (lines 840-847) for any id
ManualCheckOfAnySet ==
    /\ app = "A"
    /\ \E id \in 0..MaxSets, manualNumbers \in {m \in ManualInputs : manualSubmitAccepts(m)} :
        /\ history' = manualCheck(history, id, numbersAsNumbers(manualNumbers))
        /\ lotteryAppHistory' =
              (IF manualCheck(history, id, numbersAsNumbers(manualNumbers)) # history
               THEN JSONstringify(manualCheck(history, id, numbersAsNumbers(manualNumbers)),
                                  objects)
               ELSE lotteryAppHistory)
        /\ last' = [op |-> "manualCheck", id |-> id, before |-> find(history, id),
                    wrote |-> (manualCheck(history, id, numbersAsNumbers(manualNumbers))
                                 # history)]
    /\ UNCHANGED <<varsNotA, view, currentDetailId, isLoading, showManualInputs, restA, passes>>

\* handleCheckResults(id) from its call to its end (lines 782-804) for any id,
\* the lookup answering or not
CheckResultsOfAnySet ==
    /\ app = "A"
    /\ \E id \in 0..MaxSets, ok \in BOOLEAN :
        LET gameSet == find(history, id)
            pass == [kind |-> "check", id |-> id, gameSet |-> gameSet, history |-> history]
            h == IF gameSet = NoItem \/ hasType(gameSet) THEN history
                 ELSE IF ok /\ Available(gameSet.targetContest)
                 THEN checkResultsHistory(pass, drawn[gameSet.targetContest])
                 ELSE history
        IN  /\ history' = h
            /\ lotteryAppHistory' = (IF h # history THEN JSONstringify(h, objects)
                                     ELSE lotteryAppHistory)
            /\ last' = [op |-> "officialCheck", id |-> id, before |-> gameSet,
                        ok |-> ok, wrote |-> (h # history)]
    /\ UNCHANGED <<varsNotA, view, currentDetailId, isLoading, showManualInputs, restA, passes>>

\* handleCheckTeimosinha(id) from its call to its end (lines 806-838) for any
\* id, the lookups of the contests in answers giving a result
CheckTeimosinhaOfAnySet ==
    /\ app = "A"
    /\ \E id \in 0..MaxSets, answers \in SUBSET (1..Len(drawn)) :
        LET found == find(history, id)
            gameSet == IF found # NoItem /\ hasType(found) THEN found ELSE NoItem
            objs == IF gameSet = NoItem THEN objects
                    ELSE checkTeimosinhaLoop(objects, gameSet, answers, 1)
        IN  /\ objects' = objs
            /\ history' = IF objs # objects THEN mapReplace(history, id, gameSet) ELSE history
            /\ lotteryAppHistory' = (IF objs # objects
                                     THEN JSONstringify(mapReplace(history, id, gameSet), objs)
                                     ELSE lotteryAppHistory)
            /\ last' = [op |-> "teimosinhaPass", id |-> id, before |-> found,
                        wrote |-> (objs # objects)]
    /\ UNCHANGED <<varsNotA, view, currentDetailId, isLoading, showManualInputs,
                   fetchedResults, generatedGames, isRegularSetSaved, uuid, passes>>

\* Whether the DetailPage of game renders the manual block: past the early
\* return for a teimosinha (line 1653) and not under the official lock
\* (line 1704)
manualBlockRendered(game) == ~game.isTeimosinha /\ ~Truthy(game.officialResult)

\* "Salvar Conferência" of the DetailPage of any set (lines 1601-1630): the
\* form is there only when the manual block is rendered
SaveManualCheckOfAnySet ==
    /\ app = "B"
    /\ \E i \in 1..Len(savedGames), manualNumbers \in {m \in ManualInputs : saveManualCheckAccepts(m)} :
        LET game == savedGames[i]
            sg == IF manualBlockRendered(game)
                  THEN saveManualCheck(savedGames, game.id, manualNumbersB(manualNumbers))
                  ELSE savedGames
        IN  /\ savedGames' = sg
            /\ persistSavedGames(sg)
            /\ last' = [op |-> "manualCheck", id |-> game.id, before |-> game,
                        wrote |-> manualBlockRendered(game)]
    /\ UNCHANGED <<varsNotB, currentPage, viewingGameId, manualCheckActive, restB, passes>>

\* "Remover Conferência" of the DetailPage of any set (lines 1711-1715,
\* 1632-1646): the button is there only when the manual block is rendered and
\* the set has a manual record
RemoveManualCheckOfAnySet ==
    /\ app = "B"
    /\ \E i \in 1..Len(savedGames) :
        LET game == savedGames[i]
            offered == manualBlockRendered(game) /\ Truthy(game.manualCheck)
        IN  /\ savedGames' = IF offered THEN removeManualCheck(savedGames, game.id)
                             ELSE savedGames
            /\ loterIA_savedGames' = JSONstringify(savedGames', <<>>)
            /\ last' = [op |-> "undo", id |-> game.id, before |-> game, wrote |-> offered]
    /\ UNCHANGED <<varsNotB, currentPage, viewingGameId, manualCheckActive, restB, passes>>

\* The official lookup effect of the DetailPage of any set from its start to
\* its end (lines 1515-1536), the lookup answering or not
OfficialEffectOfAnySet ==
    /\ app = "B"
    /\ \E i \in 1..Len(savedGames), ok \in BOOLEAN :
        LET game == savedGames[i]
            started == {p \in BagToSet(DetailEffects(game)) : p.kind = "official"}
            sg == IF started # {} /\ ok /\ Available(game.targetContest)
                  THEN officialResult(savedGames, game.id, drawn[game.targetContest])
                  ELSE savedGames
        IN  /\ savedGames' = sg
            /\ persistSavedGames(sg)
            /\ last' = [op |-> "officialCheck", id |-> game.id, before |-> game,
                        ok |-> ok, wrote |-> (sg # savedGames)]
    /\ UNCHANGED <<varsNotB, currentPage, viewingGameId, manualCheckActive, restB, passes>>

\* The teimosinha effect of the DetailPage of any set from its start to its
\* end (lines 1539-1579), the lookups of the contests in answers giving a
\* result
TeimosinhaEffectOfAnySet ==
    /\ app = "B"
    /\ \E i \in 1..Len(savedGames), answers \in SUBSET (1..Len(drawn)) :
        LET game == savedGames[i]
            started == {p \in BagToSet(DetailEffects(game)) : p.kind = "teimosinha"}
            pass == CHOOSE p \in started : TRUE
            sg == IF started # {} /\ pass.contests \cap answers # {}
                  THEN teimosinhaResults(savedGames, game.id,
                         updatedResults(pass.results, pass.numbers,
                                        pass.contests \cap answers))
                  ELSE savedGames
        IN  /\ savedGames' = sg
            /\ persistSavedGames(sg)
            /\ last' = [op |-> "teimosinhaPass", id |-> game.id, before |-> game,
                        wrote |-> (sg # savedGames)]
    /\ UNCHANGED <<varsNotB, currentPage, viewingGameId, manualCheckActive, restB, passes>>

NextMode ==
    \/ ManualCheckOfAnySet
    \/ UndoManualCheckCall
    \/ CheckResultsOfAnySet
    \/ CheckTeimosinhaOfAnySet
    \/ SaveManualCheckOfAnySet
    \/ RemoveManualCheckOfAnySet
    \/ OfficialEffectOfAnySet
    \/ TeimosinhaEffectOfAnySet

SpecMode == InitUndo /\ [][NextMode]_vars

\* C29: manual check, undo and the plain official check applied to a
\* teimosinha set, and teimosinha advancement applied to a plain set, leave
\* the history and the per-contest records as they were.
C29_OperationsKeepToTheirMode ==
    [][\A id \in 1..MaxSets : (last'.id = id) =>
        /\ (last'.op \in {"manualCheck", "undo", "officialCheck"}
                /\ IsTeimosinhaSet(ItemOf(id)))
            => (Items' = Items /\ objects' = objects)
        /\ (last'.op = "teimosinhaPass" /\ IsPlain(ItemOf(id)))
            => (Items' = Items /\ objects' = objects)]_vars

\* The official check was applied to a teimosinha set still pending while
\* the draw was there to be had
C29_Witness ==
    /\ last.op = "officialCheck" /\ last.ok
    /\ IsTeimosinhaSet(ItemOf(last.id))
    /\ last.before = ItemOf(last.id)
    /\ CheckedRecords(last.id) = <<>>
    /\ \E c \in ContestsOf(ItemOf(last.id)) : Available(c)

\* Teimosinha advancement was applied to a plain set
C29_WitnessPlain ==
    /\ last.op = "teimosinhaPass"
    /\ IsPlain(ItemOf(last.id))
    /\ last.before = ItemOf(last.id)

----------------------------------------------------------------------------
(* Commits of asynchronous passes                                            *)

\* C30: when a plain official check or a teimosinha advancement writes its
\* result, every other set of the history is exactly as it was immediately
\* before the write, no set is dropped, and the set of the pass keeps the
\* per-contest records it had.
C30_NoLostUpdate ==
    [][(last'.op \in {"officialCheck", "teimosinhaLookup", "teimosinhaPass"} /\ last'.wrote)
        => \A id \in 1..uuid :
            /\ (last'.id # id) =>
                /\ ItemOf(id)' = ItemOf(id)
                /\ CheckedRecords(id)' = CheckedRecords(id)
            /\ ItemOf(id) # NoItem => ItemOf(id)' # NoItem
            /\ \A c \in DOMAIN CheckedRecords(id) :
                c \in DOMAIN CheckedRecords(id)']_vars

----------------------------------------------------------------------------
(* The automatic check of a plain set on view, with the user checking by    *)
(* hand and undoing meanwhile: the application starts with plain sets just  *)
(* saved in the history, for a contest that is drawn, and every lookup is   *)
(* answered                                                                  *)

\* A plain set as handleSaveGames (lines 733-736) and onSaveGames (lines
\* 1065-1071) make it, for contest 2
FreshPlainSet(id) ==
    IF app = "A"
    THEN [id |-> id, gameType |-> "lotofacil", dateSaved |-> id, targetContest |-> 2,
          generatedGames |-> <<Game1, Game2>>, conference |-> NoConference]
    ELSE [newSavedGame(id, <<[numbers |-> Game1], [numbers |-> Game2]>>, FALSE, 0)
            EXCEPT !.targetContest = 2]

InitLive ==
    /\ app \in {"A", "B"}
    /\ drawn = <<DrawOf(1), DrawOf(2)>>
    /\ view = "history"
    /\ currentDetailId = 0
    /\ isLoading = FALSE
    /\ fetchedResults = <<>>
    /\ generatedGames = <<>>
    /\ isRegularSetSaved = FALSE
    /\ showManualInputs = FALSE
    /\ objects = <<>>
    /\ currentPage = "history"
    /\ viewingGameId = 0
    /\ targetContest = 0
    /\ generatedGamesB = <<>>
    /\ savedAsGame = FALSE
    /\ savedAsTeimosinha = FALSE
    /\ manualCheckActive = FALSE
    /\ passes = EmptyBag
    /\ last = NoOp
    /\ \E n \in 1..MaxSets :
        /\ uuid = n
        /\ IF app = "A"
           THEN /\ savedGames = <<>>
                /\ history = [i \in 1..n |-> FreshPlainSet(i)]
           ELSE /\ history = <<>>
                /\ savedGames = [i \in 1..n |-> FreshPlainSet(i)]
    /\ lotteryAppHistory = JSONstringify(history, objects)
    /\ loterIA_savedGames = JSONstringify(savedGames, <<>>)

NextLive ==
    \/ HandleViewDetails
    \/ BackToHistory
    \/ OpenManualInputs
    \/ CancelManualInputs
    \/ HandleManualSubmit
    \/ HandleUndoManualCheck
    \/ CheckResultsResponse
    \/ OnView
    \/ OnHistory
    \/ ToggleManualCheck
    \/ HandleSaveManualCheck
    \/ HandleRemoveManualCheck
    \/ OfficialResultResponse

\* The lookup of handleCheckResults(id) answers with the draw (lines 791-798)
CheckResultsSucceeds(id) ==
    CheckResultsResponse /\ last'.op = "officialCheck" /\ last'.id = id

\* The lookup of fetchOfficialResult for the set id answers with the draw
\* (lines 1521-1524)
OfficialResultSucceeds(id) ==
    OfficialResultResponse /\ last'.op = "officialCheck" /\ last'.id = id

\* fetch settles: a lookup that stays in flight is answered
SpecLive ==
    /\ InitLive
    /\ [][NextLive]_vars
    /\ \A id \in 1..MaxSets :
        WF_vars(CheckResultsSucceeds(id)) /\ WF_vars(OfficialResultSucceeds(id))

\* The plain set id is on view, its contest is drawn and its lookup is in
\* flight
AutoCheckUnderWay(id) ==
    /\ ViewedPlainSet # NoItem /\ ViewedPlainSet.id = id
    /\ Available(ViewedPlainSet.targetContest)
    /\ \E pass \in BagToSet(passes) : pass.kind \in {"check", "official"} /\ pass.id = id

\* The set id carries the official record of its contest
OfficiallyConferred(id) ==
    /\ IsPlain(ItemOf(id))
    /\ Provenance(ItemOf(id)) = "official"
    /\ WinningNumbersOf(ItemOf(id)) =
          IF app = "A" THEN MapNumber(drawn[ItemOf(id).targetContest])
          ELSE drawnNumbersOf(drawn[ItemOf(id).targetContest])

\* C31: when a plain set is on view, its contest is drawn and its lookup is
\* in flight, then eventually the set carries the official record with the
\* numbers of that contest, or the lookup has failed; the manual checks and
\* undos made meanwhile do not prevent it.
C31_AutoCheckEventuallyConfers ==
    \A id \in 1..MaxSets :
        AutoCheckUnderWay(id)
            ~> (OfficiallyConferred(id) \/ (last.op = "checkUnavailable" /\ last.id = id))

\* The official record arrived over a manual record made while the lookup
\* was in flight
C31_Witness ==
    /\ last.op = "officialCheck"
    /\ IsPlain(last.before) /\ Provenance(last.before) = "manual"
    /\ ViewedPlainSet # NoItem /\ ViewedPlainSet.id = last.id
    /\ OfficiallyConferred(last.id)

----------------------------------------------------------------------------
(* A conference without a prize                                              *)

\* C32: after a manual or official conference of a plain set with numbers for
\* which no combination reaches a prize tier, the set carries a record with
\* those numbers and an empty summary: it is not unchecked.
C32_NoPrizeIsStillARecord ==
    (/\ last.op \in {"manualCheck", "officialCheck"} /\ last.wrote
     /\ ItemOf(last.id) # NoItem
     /\ TierSummary(GamesOf(ItemOf(last.id)), last.numbers) = <<>>)
    => /\ IsPlain(ItemOf(last.id))
       /\ Provenance(ItemOf(last.id)) # "none"
       /\ sortNumbers(WinningNumbersOf(ItemOf(last.id))) = sortNumbers(last.numbers)
       /\ SummaryOf(ItemOf(last.id)) = <<>>

C32_Witness ==
    /\ last.op = "officialCheck" /\ last.wrote
    /\ ItemOf(last.id) # NoItem
    /\ TierSummary(GamesOf(ItemOf(last.id)), last.numbers) = <<>>
    /\ Provenance(ItemOf(last.id)) = "official"
    /\ SummaryOf(ItemOf(last.id)) = <<>>

----------------------------------------------------------------------------
(* The lookups of a teimosinha pass                                          *)

\* The positions (variant A) or contests (variant B) of the records a pass in
\* flight has asked the lottery about since it started: the lookups answered
\* with a result and the one in flight; Promise.all's lookups
AskedBy(pass) ==
    IF app = "A" THEN pass.ok \cup {pass.at} ELSE pass.contests

\* The records that were checked when the pass started
CheckedAtStart(pass) ==
    IF app = "A" THEN pass.checkedBefore ELSE DOMAIN pass.results

\* C33: a teimosinha pass asks only about records that were pending when it
\* started, about each of them at most once and in ascending order, so it
\* ends after at most that many lookups; and no lookup is started for a record
\* that is checked.
C33_OneLookupPerPendingRecord ==
    [][/\ \A pass \in {p \in BagToSet(passes') : p.kind = "teimosinha"} :
            /\ AskedBy(pass) \cap CheckedAtStart(pass) = {}
            /\ (app = "A") => /\ pass.at \notin pass.ok
                              /\ \A i \in pass.ok : i < pass.at
                              /\ pass.at \in 1..Len(pass.gameSet.conferenceResults)
            /\ (app = "B" /\ findB(savedGames', pass.id) # NoItem)
                    => pass.contests \subseteq ContestsOf(findB(savedGames', pass.id))
       /\ \A id \in 1..uuid : \A c \in DOMAIN LookupsInFlight(id)' :
            (c \notin DOMAIN LookupsInFlight(id) \/ LookupsInFlight(id)'[c] > LookupsInFlight(id)[c])
                => c \notin DOMAIN CheckedRecords(id)']_vars

\* A pass has gone on from a record it got checked to the next pending one
C33_Witness ==
    /\ app = "A"
    /\ \E pass \in BagToSet(passes) :
        /\ pass.kind = "teimosinha"
        /\ pass.ok # {}
        /\ pass.checkedBefore = {}
        /\ objects[pass.gameSet.conferenceResults[pass.at]].status = "pending"

\* The lookups of a pass for the records not yet in results are in flight
C33_WitnessB ==
    /\ app = "B"
    /\ \E pass \in BagToSet(passes) :
        /\ pass.kind = "teimosinha"
        /\ pass.results # <<>>
        /\ pass.contests # {}

----------------------------------------------------------------------------
(* The automatic checks left alone: a detail page has just been opened,     *)
(* perhaps after another one whose lookups are still in flight, the lottery *)
(* holds a fixed number of draws, and the user does nothing more            *)

\* The view handleViewDetails gives the set item (lines 764-768)
ViewOf(item) == IF hasType(item) THEN "teimosinhaDetail" ELSE "historyDetail"

\* A teimosinha set of variant B over MaxTeimosinha contests from contest 2
LongTeimosinhaSetB(id) ==
    [newSavedGame(id, <<[numbers |-> Game1]>>, TRUE, MaxTeimosinha) EXCEPT !.targetContest = 2]

InitQuiet ==
    /\ app \in {"A", "B"}
    /\ \E n \in 1..MaxContest : drawn = [c \in 1..n |-> DrawOf(c)]
    /\ fetchedResults = <<>>
    /\ generatedGames = <<>>
    /\ isRegularSetSaved = FALSE
    /\ showManualInputs = FALSE
    /\ targetContest = 0
    /\ generatedGamesB = <<>>
    /\ savedAsGame = FALSE
    /\ savedAsTeimosinha = FALSE
    /\ manualCheckActive = FALSE
    /\ last = NoOp
    /\ uuid = MaxSets
    /\ \E now \in 1..MaxSets, earlier \in 0..MaxSets :
        IF app = "A"
        THEN /\ currentPage = "home" /\ viewingGameId = 0 /\ savedGames = <<>>
             /\ \E h \in [1..MaxSets -> UNION {PlainSetsA(id) \cup {TeimosinhaSetA(id)} :
                                                  id \in 1..MaxSets}] :
                /\ \A i \in 1..MaxSets : h[i].id = i
                /\ history = h
                /\ objects = [ref \in {h[i].conferenceResults[1] :
                                         i \in {j \in 1..MaxSets : hasType(h[j])}} |->
                                 [contest |-> 2, status |-> "pending"]]
                /\ view = ViewOf(h[now])
                /\ currentDetailId = now
                /\ passes = AutoCheck(h, ViewOf(h[now]), now)
                               (+) (IF earlier = 0 THEN EmptyBag
                                    ELSE AutoCheck(h, ViewOf(h[earlier]), earlier))
                /\ isLoading = (passes # EmptyBag)
        ELSE /\ view = "home" /\ currentDetailId = 0 /\ history = <<>>
             /\ objects = <<>> /\ isLoading = FALSE
             /\ \E sg \in [1..MaxSets -> UNION {PlainSetsB(id) \cup {LongTeimosinhaSetB(id)} :
                                                   id \in 1..MaxSets}] :
                /\ \A i \in 1..MaxSets : sg[i].id = i
                /\ savedGames = sg
                /\ currentPage = "details"
                /\ viewingGameId = now
                /\ passes = DetailEffects(sg[now])
                               (+) (IF earlier = 0 THEN EmptyBag
                                    ELSE DetailEffects(sg[earlier]))
    /\ lotteryAppHistory = JSONstringify(history, objects)
    /\ loterIA_savedGames = JSONstringify(savedGames, <<>>)

NextQuiet ==
    \/ CheckResultsResponse
    \/ OfficialResultResponse
    \/ TeimosinhaResultsResponse

\* fetch settles: every lookup in flight is answered, with a result or none
SpecQuiet ==
    /\ InitQuiet
    /\ [][NextQuiet]_vars
    /\ WF_vars(CheckResultsResponse)
    /\ WF_vars(OfficialResultResponse)
    /\ WF_vars(TeimosinhaResultsResponse)

\* C34: left alone, the automatic checks of the page on view come to rest:
\* from some moment on no lookup is in flight; and a lookup answered without
\* a result starts no other lookup.
C34_AutomaticCheckingQuiesces ==
    /\ <>[](passes = EmptyBag)
    /\ [][(last'.op = "checkUnavailable" \/ (last'.op = "teimosinhaPass" /\ ~last'.wrote))
            => BagCardinality(passes') = BagCardinality(passes) - 1]_vars

\* The page shows a plain set without an official record, its lookup was
\* answered without a result, and nothing is in flight
C34_Witness ==
    /\ last.op = "checkUnavailable"
    /\ passes = EmptyBag
    /\ ViewedPlainSet # NoItem /\ ViewedPlainSet.id = last.id
    /\ Provenance(ViewedPlainSet) # "official"

\* A teimosinha pass wrote some results, the effect ran again for the
\* contests still without one, and that second lookup is in flight
C34_WitnessSecondLookup ==
    /\ last.op = "teimosinhaPass" /\ last.wrote
    /\ \E pass \in BagToSet(passes) :
          pass.kind = "teimosinha" /\ pass.id = last.id /\ DOMAIN pass.results # {}

----------------------------------------------------------------------------
(* The shared loading flag of variant A (isLoading, line 612)               *)

\* The teimosinha passes in flight for the set id, with their multiplicity
AdvancementPasses(id) ==
    BagCardinality([pass \in {p \in BagToSet(passes) : p.kind = "teimosinha" /\ p.id = id} |->
                      CopiesIn(pass, passes)])

\* C35: the loading flag is true whenever a conference lookup is in flight,
\* no two advancement passes for the same teimosinha set are in flight
\* together, and the flag is false once no pass is in flight.
C35_LoadingFlagCoversEveryPass ==
    app = "A" =>
        /\ passes # EmptyBag => isLoading
        /\ \A id \in 1..MaxSets : AdvancementPasses(id) <= 1
        /\ passes = EmptyBag => ~isLoading

----------------------------------------------------------------------------
(* The saved sets in localStorage and in memory *)

\* The saved sets a render shows: the history with the records its references
\* lead to (variant A), the saved games (variant B)
Rendered == IF app = "A" THEN Deref(history, objects) ELSE savedGames

\* The saved sets a reload would read from localStorage
Persisted ==
    IF app = "A" THEN JSONparse(lotteryAppHistory) ELSE JSONparse(loterIA_savedGames)

\* An update is under way: a handleCheckTeimosinha call has checked a record
\* and has not come to its updateHistory yet
UpdateUnderWay ==
    app = "A" /\ \E pass \in BagToSet(passes) : pass.kind = "teimosinha" /\ pass.updated

C36_WitnessB ==
    /\ app = "B" /\ last.op = "teimosinhaPass" /\ last.wrote
    /\ Persisted = Rendered
    /\ \E i \in 1..Len(loterIA_savedGames) :
          /\ loterIA_savedGames[i].id = last.id
          /\ DOMAIN loterIA_savedGames[i].results # {}
          /\ "officialResult" \notin DOMAIN loterIA_savedGames[i]

====
